---------------------------- MODULE Spec2Model ----------------------------
(***************************************************************************)
(* A model of feather-repl: the repeating-decimal value DecimalTuple, the  *)
(* cycle finder it is built on, the estimate option flags, the parser and  *)
(* the evaluator, the two renderings of a float against its exact value,   *)
(* and the loop of the driver.  Each section names the source file it is   *)
(* translated from.                                                        *)
(***************************************************************************)
EXTENDS Integers, Sequences, FiniteSets, TLC

VARIABLES
    \* utils.rs cycle_mu_lambda, run step by step
    cf, cx0, tor, har, mu, lambda, cpc,
    \* number.rs: two DecimalTuple values, a BigRational, the tuple converted
    \* back from it, the result of lcp_len, and the last operation
    dA, dB, ratA, backA, lcpRes, dpc,
    \* number.rs from_str: the string, the regex captures, the result, and
    \* the position in from_str
    pstr, pcaps, pres, ppc,
    \* ast.rs EvalOptions: the flags, the rest of the command being applied,
    \* the flags before the last step and the item it handled, the command
    \* and the flags it started from, the last do_estimate call and its result
    estimate, queue, opre, olast, ocmd, ectx, eres, opc,
    \* parser.rs parse_line and ast.rs Expr::eval: the line, what parse_line
    \* made of it, what eval returned and the frames ui::estimate printed
    eline, etree, eout, epc,
    \* ui.rs: the float and the truth as DecimalTuples, what str_emph_correct
    \* and str_approx made of them, and the last call
    uapprox, utruth, uemph, uappr, upc,
    \* repl.rs repl: the position in the loop, the loop counter, what was
    \* printed since the last read, the history of the editor, the calls of
    \* save_history, what repl returned, and what readline returned last
    rpc, rnl, rlog, rhist, rsaved, rret, rread

cycleVars == <<cf, cx0, tor, har, mu, lambda, cpc>>
decVars == <<dA, dB, ratA, backA, lcpRes, dpc>>
parseVars == <<pstr, pcaps, pres, ppc>>
optVars == <<estimate, queue, opre, olast, ocmd, ectx, eres, opc>>
evalVars == <<eline, etree, eout, epc>>
uiVars == <<uapprox, utruth, uemph, uappr, upc>>
replVars == <<rpc, rnl, rlog, rhist, rsaved, rret, rread>>
vars == <<cycleVars, decVars, parseVars, optVars, evalVars, uiVars, replVars>>
notCycleVars == <<decVars, parseVars, optVars, evalVars, uiVars, replVars>>
notDecVars == <<cycleVars, parseVars, optVars, evalVars, uiVars, replVars>>
notParseVars == <<cycleVars, decVars, optVars, evalVars, uiVars, replVars>>
notOptVars == <<cycleVars, decVars, parseVars, evalVars, uiVars, replVars>>
notEvalVars == <<cycleVars, decVars, parseVars, uiVars, replVars>>
notUiVars == <<cycleVars, decVars, parseVars, optVars, evalVars, replVars>>
notReplVars == <<cycleVars, decVars, parseVars, uiVars>>

(***************************************************************************)
(* Bounds of the model.                                                    *)
(***************************************************************************)
\* the successor functions of the cycle finder range over 0..MaxCycleState
MaxCycleState == 3
\* the longest frac_once and frac_rep handed to DecimalTuple::new
MaxOnceLen == 1
MaxRepLen == 2
\* the digits those sequences are made of, and the integer parts
InDigits == {0, 1, 9}
InInts == {0, 1, 10, 11}
\* the longest digit run (INT, ONCE, the digits of REP) of a generated string
MaxStrDigits == 1
\* every string up to this length over the characters StrChars is tried too
MaxJunkLen == 3
\* a colon command has at most MaxSegments key=value pairs and MaxCmdTokens
\* tokens in all
MaxSegments == 2
MaxCmdTokens == 2
\* do_estimate is asked about depths 0..MaxDepth
MaxDepth == 1
\* the generated lines have at most MaxOps operators
MaxOps == 1
\* the significand of the floating-point format has FloatBits bits
FloatBits == 3

(***************************************************************************)
(* The parts of the state a specification does not use stay as they are    *)
(* here.                                                                   *)
(***************************************************************************)
CycleStates == 0..MaxCycleState

IdleCycle ==
    /\ cf = [x \in CycleStates |-> x]
    /\ cx0 = 0
    /\ tor = 0 /\ har = 0 /\ mu = 0 /\ lambda = 0
    /\ cpc = "idle"

\* DecimalTuple::zero and Default for DecimalTuple
Zero == [sign |-> "NoSign", int |-> 0, frac_once |-> <<>>, frac_rep |-> <<>>]

IdleDec ==
    /\ dA = Zero /\ dB = Zero /\ backA = Zero
    /\ ratA = <<0, 1>>
    /\ lcpRes = <<>>
    /\ dpc = "idle"

\* caps.name(..) of a match: whether SIGN is "-", the text of INT, and the
\* digits of ONCE and REP
NoCaps == [matched |-> FALSE, neg |-> FALSE, int |-> <<>>,
           once |-> <<>>, rep |-> <<>>]

\* Result<DecimalTuple, DecimalTupleParseError>
Ok(d) == [ok |-> TRUE, err |-> "", dt |-> d]
Err(e) == [ok |-> FALSE, err |-> e, dt |-> Zero]

IdleParse ==
    /\ pstr = <<>>
    /\ pcaps = NoCaps
    /\ pres = Ok(Zero)
    /\ ppc = "idle"

\* EstimateContext
EstimateContext(literal, paren, binary) ==
    [literal |-> literal, paren |-> paren, binary |-> binary]

\* #[derive(Default)]: every flag false
DefaultEstimate == EstimateContext(FALSE, FALSE, FALSE)

NoItem == [kind |-> "none", text |-> ""]
NoCtx == [node |-> "None", expr_ty |-> "None", depth |-> 0]

IdleOpt ==
    /\ estimate = DefaultEstimate
    /\ queue = <<>>
    /\ opre = DefaultEstimate
    /\ olast = NoItem
    /\ ocmd = [from |-> DefaultEstimate, cmd |-> <<>>]
    /\ ectx = NoCtx
    /\ eres = FALSE
    /\ opc = "off"

NoTree == [ok |-> FALSE, pos |-> 0]
NoOut == [ok |-> FALSE, range |-> <<0, 0>>, frames |-> <<>>]

IdleEval ==
    /\ eline = <<>>
    /\ etree = NoTree
    /\ eout = NoOut
    /\ epc = "off"

NoEmph == [len |-> <<>>, bold |-> <<>>, dark |-> <<>>]
NoApprox == [form |-> "none", t |-> <<0, 1>>, plus |-> FALSE,
             rel |-> <<1, 1>>, exp |-> 0]

IdleUi ==
    /\ uapprox = Zero /\ utruth = Zero
    /\ uemph = NoEmph
    /\ uappr = NoApprox
    /\ upc = "idle"

IdleRepl ==
    /\ rpc = "off"
    /\ rnl = 0
    /\ rlog = <<>>
    /\ rhist = <<>>
    /\ rsaved = 0
    /\ rret = "none"
    /\ rread = "none"

(***************************************************************************)
(* utils.rs: cycle_mu_lambda as a pure function.  f is a TLA+ function.    *)
(***************************************************************************)
RECURSIVE Meet(_, _, _)
\* first loop: tortoise by one, hare by two, until they meet
Meet(t, h, f) == IF t = h THEN h ELSE Meet(f[t], f[f[h]], f)

RECURSIVE FindMu(_, _, _, _)
\* second loop: both by one from x0 and the meeting point; <<mu, tor>>
FindMu(t, h, f, m) == IF t = h THEN <<m, t>> ELSE FindMu(f[t], f[h], f, m + 1)

RECURSIVE FindLambda(_, _, _, _)
\* third loop: the hare alone until it is back at the tortoise
FindLambda(t, h, f, l) == IF t = h THEN l ELSE FindLambda(t, f[h], f, l + 1)

cycle_mu_lambda(x0, f) ==
    LET t1 == f[x0]
        h1 == f[t1]
        h2 == Meet(t1, h1, f)
        r == FindMu(x0, h2, f, 0)
        l == FindLambda(r[2], f[r[2]], f, 1)
    IN <<r[1], l>>

(***************************************************************************)
(* utils.rs: cycle_mu_lambda step by step, one action per statement or     *)
(* loop iteration.                                                         *)
(***************************************************************************)
InitCycle ==
    /\ IdleDec /\ IdleParse /\ IdleOpt /\ IdleEval /\ IdleUi /\ IdleRepl
    /\ cf \in [CycleStates -> CycleStates]
    /\ cx0 \in CycleStates
    /\ tor = 0 /\ har = 0 /\ mu = 0 /\ lambda = 0
    /\ cpc = "start"

\* let mut tor = f(&x0); let mut har = f(&tor);
CycleStart ==
    /\ cpc = "start"
    /\ tor' = cf[cx0]
    /\ har' = cf[cf[cx0]]
    /\ cpc' = "meet"
    /\ UNCHANGED <<cf, cx0, mu, lambda>>
    /\ UNCHANGED notCycleVars

\* while tor != har { tor = f(&tor); har = f(&f(&har)); }
MeetStep ==
    /\ cpc = "meet"
    /\ tor # har
    /\ tor' = cf[tor]
    /\ har' = cf[cf[har]]
    /\ UNCHANGED <<cf, cx0, mu, lambda, cpc>>
    /\ UNCHANGED notCycleVars

\* let mut tor = x0; let mut mu = 0;
MeetExit ==
    /\ cpc = "meet"
    /\ tor = har
    /\ tor' = cx0
    /\ mu' = 0
    /\ cpc' = "mu"
    /\ UNCHANGED <<cf, cx0, har, lambda>>
    /\ UNCHANGED notCycleVars

\* while tor != har { tor = f(&tor); har = f(&har); mu += 1; }
MuStep ==
    /\ cpc = "mu"
    /\ tor # har
    /\ tor' = cf[tor]
    /\ har' = cf[har]
    /\ mu' = mu + 1
    /\ UNCHANGED <<cf, cx0, lambda, cpc>>
    /\ UNCHANGED notCycleVars

\* the hare started on the tortoise itself: har = tor
MuExitNoStep ==
    /\ cpc = "mu"
    /\ tor = har
    /\ lambda' = 1
    /\ har' = tor
    /\ cpc' = "lambda"
    /\ UNCHANGED <<cf, cx0, tor, mu>>
    /\ UNCHANGED notCycleVars

\* let mut lambda = 1; har = f(&tor);
MuExit ==
    /\ cpc = "mu"
    /\ tor = har
    /\ lambda' = 1
    /\ har' = cf[tor]
    /\ cpc' = "lambda"
    /\ UNCHANGED <<cf, cx0, tor, mu>>
    /\ UNCHANGED notCycleVars

\* while tor != har { har = f(&har); lambda += 1; }
LambdaStep ==
    /\ cpc = "lambda"
    /\ tor # har
    /\ har' = cf[har]
    /\ lambda' = lambda + 1
    /\ UNCHANGED <<cf, cx0, tor, mu, cpc>>
    /\ UNCHANGED notCycleVars

\* (mu, lambda)
CycleReturn ==
    /\ cpc = "lambda"
    /\ tor = har
    /\ cpc' = "done"
    /\ UNCHANGED <<cf, cx0, tor, har, mu, lambda>>
    /\ UNCHANGED notCycleVars

NextCycle ==
    \/ CycleStart
    \/ MeetStep
    \/ MeetExit
    \/ MuStep
    \/ MuExit
    \/ LambdaStep
    \/ CycleReturn

\* the function runs to completion once called: no statement waits
SpecCycle == InitCycle /\ [][NextCycle]_vars /\ WF_vars(NextCycle)

(***************************************************************************)
(* C3                                                                      *)
(***************************************************************************)
RECURSIVE Iter(_, _, _)
Iter(f, x, n) == IF n = 0 THEN x ELSE Iter(f, f[x], n - 1)

\* x lies on a cycle of f
OnCycle(f, x) == \E k \in 1..(MaxCycleState + 1) : Iter(f, x, k) = x

\* the least index at which the orbit of x0 is on its cycle
LeastMu(f, x0) ==
    CHOOSE i \in 0..(MaxCycleState + 1) :
        /\ OnCycle(f, Iter(f, x0, i))
        /\ \A j \in 0..(i - 1) : ~OnCycle(f, Iter(f, x0, j))

\* the least period of x
LeastLambda(f, x) ==
    CHOOSE k \in 1..(MaxCycleState + 1) :
        /\ Iter(f, x, k) = x
        /\ \A j \in 1..(k - 1) : Iter(f, x, j) # x

CycleResultCorrect ==
    cpc = "done" =>
        /\ lambda >= 1
        /\ Iter(cf, cx0, mu) = Iter(cf, cx0, mu + lambda)
        /\ mu = LeastMu(cf, cx0)
        /\ lambda = LeastLambda(cf, Iter(cf, cx0, mu))
        /\ <<mu, lambda>> = cycle_mu_lambda(cx0, cf)

\* C3: for every successor function over a finite state set and every start,
\* cycle_mu_lambda terminates, and the pair it returns has lambda >= 1,
\* f^mu(x0) = f^(mu+lambda)(x0), mu the least index on the cycle and lambda
\* the least period.
C3_CycleFinderCorrect == <>(cpc = "done") /\ []CycleResultCorrect

\* a run that ended with a tail of two steps before a cycle of length two
C3_Witness == cpc = "done" /\ mu = 2 /\ lambda = 2

(***************************************************************************)
(* num_rational::BigRational: a pair <<numer, denom>> in lowest terms with *)
(* a positive denominator.                                                 *)
(***************************************************************************)
Abs(n) == IF n < 0 THEN -n ELSE n

RECURSIVE GcdNat(_, _)
GcdNat(a, b) == IF b = 0 THEN a ELSE GcdNat(b, a % b)

Gcd(a, b) == GcdNat(Abs(a), Abs(b))

RECURSIVE Pow(_, _)
Pow(b, e) == IF e = 0 THEN 1 ELSE b * Pow(b, e - 1)

\* Ratio::new: reduce, and move the sign to the numerator
RatNew(n, d) ==
    LET g == Gcd(n, d)
        s == IF d < 0 THEN -1 ELSE 1
    IN <<s * (n \div g), s * (d \div g)>>

RatFromInt(n) == <<n, 1>>

RatAdd(a, b) ==
    LET g == Gcd(a[2], b[2])
        l == (a[2] \div g) * b[2]
    IN RatNew(a[1] * (l \div a[2]) + b[1] * (l \div b[2]), l)

RatNeg(a) == <<-a[1], a[2]>>
RatSub(a, b) == RatAdd(a, RatNeg(b))

RatMul(a, b) ==
    LET g1 == Gcd(a[1], b[2])
        g2 == Gcd(b[1], a[2])
    IN RatNew((a[1] \div g1) * (b[1] \div g2), (a[2] \div g2) * (b[2] \div g1))

\* b is not zero
RatDiv(a, b) == RatMul(a, RatNew(b[2], b[1]))

RatIsZero(a) == a[1] = 0
RatAbs(a) == <<Abs(a[1]), a[2]>>

(***************************************************************************)
(* number.rs: DecimalTuple.                                                *)
(***************************************************************************)
Signs == {"Minus", "NoSign", "Plus"}

DecimalTuple(sign, int, frac_once, frac_rep) ==
    [sign |-> sign, int |-> int, frac_once |-> frac_once, frac_rep |-> frac_rep]

RECURSIVE FoldDigits(_, _)
\* fold((0, 1), |(xn, xd), y| (xn * 10 + y, xd * 10)) over the digits ds
FoldDigits(ds, acc) ==
    IF ds = <<>> THEN acc
    ELSE FoldDigits(Tail(ds), <<acc[1] * 10 + Head(ds), acc[2] * 10>>)

\* to_rational taking the block over 10^k rather than over 10^k - 1
to_rational_pow10(sign, int, frac_once, frac_rep) ==
    LET rat_once == FoldDigits(frac_once, <<0, 1>>)
        rep0 == FoldDigits(frac_rep, <<0, 1>>)
        rat_rep == <<rep0[1], rep0[2] * rat_once[2]>>
        mag == RatAdd(RatAdd(RatFromInt(int), RatNew(rat_once[1], rat_once[2])),
                      RatNew(rat_rep[1], rat_rep[2]))
    IN IF sign = "Minus" THEN RatNeg(mag) ELSE mag

to_rational(sign, int, frac_once, frac_rep) ==
    LET rat_once == FoldDigits(frac_once, <<0, 1>>)
        rep0 == FoldDigits(frac_rep, <<0, 1>>)
        rat_rep == IF rep0[1] # 0
                   THEN <<rep0[1], (rep0[2] - 1) * rat_once[2]>>
                   ELSE rep0
        mag == RatAdd(RatAdd(RatFromInt(int), RatNew(rat_once[1], rat_once[2])),
                      RatNew(rat_rep[1], rat_rep[2]))
    IN IF sign = "Minus" THEN RatNeg(mag) ELSE mag

\* impl From<DecimalTuple> for BigRational
RationalFromDecimal(dec) ==
    to_rational(dec.sign, dec.int, dec.frac_once, dec.frac_rep)

RECURSIVE div_iter(_, _, _)
\* the first k quotient digits of x / den, for a remainder x < den
div_iter(x, den, k) ==
    IF k = 0 THEN <<>>
    ELSE <<(x * 10) \div den>> \o div_iter((x * 10) % den, den, k - 1)

\* the block [0] of a terminating expansion left in place
ClearZeroRepKept(frac_rep) == frac_rep

\* if frac_rep == [0] { frac_rep.clear(); }
ClearZeroRep(frac_rep) == IF frac_rep = <<0>> THEN <<>> ELSE frac_rep

\* impl From<BigRational> for DecimalTuple
DecimalFromRational(rat) ==
    IF rat[1] = 0 THEN Zero
    ELSE
        LET sign == IF rat[1] < 0 THEN "Minus" ELSE "Plus"
            mag == RatAbs(rat)
            int == mag[1] \div mag[2]
            num == mag[1] % mag[2]
            den == mag[2]
            ml == cycle_mu_lambda(num % den,
                                  [x \in 0..(den - 1) |-> (x * 10) % den])
            ds == div_iter(num, den, ml[1] + ml[2])
            frac_once == SubSeq(ds, 1, ml[1])
            frac_rep == SubSeq(ds, ml[1] + 1, ml[1] + ml[2])
        IN DecimalTuple(sign, int, frac_once, ClearZeroRep(frac_rep))

\* DecimalTuple::new
New(sign, int, frac_once, frac_rep) ==
    DecimalFromRational(to_rational(sign, int, frac_once, frac_rep))

is_integer(d) == d.frac_once = <<>> /\ d.frac_rep = <<>>
is_repetitive(d) == d.frac_rep # <<>>

\* Option<usize>: None is the empty sequence, Some(x) is <<x>>
None == <<>>
Some(x) == <<x>>

RECURSIVE DecDigits(_)
\* BigUint::to_string, as the sequence of its decimal digits
DecDigits(n) == IF n < 10 THEN <<n>> ELSE Append(DecDigits(n \div 10), n % 10)

\* utils.rs: iter_diff_index, the first index at which the zipped sequences
\* differ
iter_diff_index(l, r) ==
    LET n == IF Len(l) < Len(r) THEN Len(l) ELSE Len(r)
        D == {i \in 1..n : l[i] # r[i]}
    IN IF D = {} THEN None
       ELSE Some((CHOOSE i \in D : \A j \in D : i <= j) - 1)

\* the byte b'.' among the digit values 0..9
Dot == 46

Max(a, b) == IF a > b THEN a ELSE b

\* frac_rep chained once, without .cycle()
DigitStreamOnce(d, bound) ==
    LET ip == DecDigits(d.int)
        n1 == Len(ip)
        n2 == n1 + 1
        n3 == n2 + Len(d.frac_once)
        n4 == n3 + Len(d.frac_rep)
    IN [i \in 1..bound |->
          IF i <= n1 THEN ip[i]
          ELSE IF i = n2 THEN Dot
          ELSE IF i <= n3 THEN d.frac_once[i - n2]
          ELSE IF i <= n4 THEN d.frac_rep[i - n3]
          ELSE 0]

\* int digits, '.', frac_once, frac_rep cycled, then zeros: the first bound
\* elements
DigitStream(d, bound) ==
    LET ip == DecDigits(d.int)
        n1 == Len(ip)
        n2 == n1 + 1
        n3 == n2 + Len(d.frac_once)
    IN [i \in 1..bound |->
          IF i <= n1 THEN ip[i]
          ELSE IF i = n2 THEN Dot
          ELSE IF i <= n3 THEN d.frac_once[i - n2]
          ELSE IF d.frac_rep # <<>>
               THEN d.frac_rep[((i - n3 - 1) % Len(d.frac_rep)) + 1]
          ELSE 0]

\* 2 * len_l.max(len_r)
LcpBound(self, other) ==
    LET len_l == Len(DecDigits(self.int)) + 1
                    + Len(self.frac_once) + Len(self.frac_rep)
        len_r == Len(DecDigits(other.int)) + 1
                    + Len(other.frac_once) + Len(other.frac_rep)
    IN 2 * Max(len_l, len_r)

\* the shared '-' not counted
LcpShiftNone(sgn_l, tmp) == tmp

\* tmp.map(|x| if sgn_l == Minus { x + 1 } else { x })
LcpShift(sgn_l, tmp) ==
    IF tmp = None THEN None
    ELSE IF sgn_l = "Minus" THEN Some(tmp[1] + 1) ELSE tmp

lcp_len(self, other) ==
    IF self.sign # other.sign THEN Some(0)
    ELSE
        LET s_uint_l == DecDigits(self.int)
            s_uint_r == DecDigits(other.int)
            bound == LcpBound(self, other)
            tmp == IF Len(s_uint_l) # Len(s_uint_r) THEN Some(0)
                   ELSE IF self.int # other.int
                        THEN iter_diff_index(s_uint_l, s_uint_r)
                   ELSE iter_diff_index(DigitStream(self, bound),
                                        DigitStream(other, bound))
        IN LcpShift(self.sign, tmp)

(***************************************************************************)
(* number.rs driven: a DecimalTuple written field by field (as the tests   *)
(* of number.rs do) is converted to a BigRational and back; two tuples     *)
(* made by DecimalTuple::new are compared by lcp_len.                      *)
(***************************************************************************)
DigitSeqs(n) == UNION {[1..k -> InDigits] : k \in 0..n}

InitDecimal ==
    /\ IdleCycle /\ IdleParse /\ IdleOpt /\ IdleEval /\ IdleUi /\ IdleRepl
    /\ dA = Zero /\ dB = Zero /\ backA = Zero
    /\ ratA = <<0, 1>>
    /\ lcpRes = None
    /\ dpc = "init"

\* DecimalTuple { sign, int, frac_once, frac_rep }
Construct(sign, int, frac_once, frac_rep) ==
    /\ dpc = "init"
    /\ dA' = DecimalTuple(sign, int, frac_once, frac_rep)
    /\ dpc' = "raw"
    /\ UNCHANGED <<dB, ratA, backA, lcpRes>>
    /\ UNCHANGED notDecVars

\* BigRational::from(d)
ToRat ==
    /\ dpc = "raw"
    /\ ratA' = RationalFromDecimal(dA)
    /\ dpc' = "rat"
    /\ UNCHANGED <<dA, dB, backA, lcpRes>>
    /\ UNCHANGED notDecVars

\* DecimalTuple::from(rat)
FromRat ==
    /\ dpc = "rat"
    /\ backA' = DecimalFromRational(ratA)
    /\ dpc' = "back"
    /\ UNCHANGED <<dA, dB, ratA, lcpRes>>
    /\ UNCHANGED notDecVars

\* let d1 = DecimalTuple::new(sign, int, frac_once, frac_rep)
NewA(sign, int, frac_once, frac_rep) ==
    /\ dpc = "init"
    /\ dA' = New(sign, int, frac_once, frac_rep)
    /\ dpc' = "a"
    /\ UNCHANGED <<dB, ratA, backA, lcpRes>>
    /\ UNCHANGED notDecVars

\* let d2 = DecimalTuple::new(sign, int, frac_once, frac_rep)
NewB(sign, int, frac_once, frac_rep) ==
    /\ dpc = "a"
    /\ dB' = New(sign, int, frac_once, frac_rep)
    /\ dpc' = "ab"
    /\ UNCHANGED <<dA, ratA, backA, lcpRes>>
    /\ UNCHANGED notDecVars

\* d1.lcp_len(&d2)
Lcp ==
    /\ dpc = "ab"
    /\ lcpRes' = lcp_len(dA, dB)
    /\ dpc' = "lcp"
    /\ UNCHANGED <<dA, dB, ratA, backA>>
    /\ UNCHANGED notDecVars

\* a tuple is written, converted to a BigRational and converted back
NextRoundTrip ==
    \/ \E sign \in Signs, int \in InInts,
          frac_once \in DigitSeqs(MaxOnceLen), frac_rep \in DigitSeqs(MaxRepLen) :
            Construct(sign, int, frac_once, frac_rep)
    \/ ToRat
    \/ FromRat

SpecRoundTrip == InitDecimal /\ [][NextRoundTrip]_vars

\* two tuples are made by DecimalTuple::new and compared
NextLcp ==
    \/ \E sign \in Signs, int \in InInts,
          frac_once \in DigitSeqs(MaxOnceLen), frac_rep \in DigitSeqs(MaxRepLen) :
            \/ NewA(sign, int, frac_once, frac_rep)
            \/ NewB(sign, int, frac_once, frac_rep)
    \/ Lcp

SpecLcp == InitDecimal /\ [][NextLcp]_vars

(***************************************************************************)
(* C1                                                                      *)
(***************************************************************************)
Last(s) == s[Len(s)]

AllDigit(s, d) == \A i \in 1..Len(s) : s[i] = d

\* s is a shorter block written Len(s) \div p times
HasPeriod(s, p) ==
    /\ p < Len(s)
    /\ Len(s) % p = 0
    /\ \A i \in 1..(Len(s) - p) : s[i] = s[i + p]

\* The invariants of the data model, stated on the fields alone: zero has
\* one form and only zero has NoSign; every digit is in 0..9; frac_rep is
\* no block of zeros (the expansion would terminate), no block of nines
\* (0.(9) is 1, 0.199(9) is 0.2) and no repetition of a shorter block;
\* frac_once is as short as it can be.
Canonical(d) ==
    /\ \A i \in 1..Len(d.frac_once) : d.frac_once[i] \in 0..9
    /\ \A i \in 1..Len(d.frac_rep) : d.frac_rep[i] \in 0..9
    /\ d.sign = "NoSign" <=>
          (d.int = 0 /\ AllDigit(d.frac_once, 0) /\ AllDigit(d.frac_rep, 0))
    /\ d.sign = "NoSign" => d = Zero
    /\ d.frac_rep # <<>> => ~AllDigit(d.frac_rep, 0) /\ ~AllDigit(d.frac_rep, 9)
    /\ \A p \in 1..Len(d.frac_rep) : ~HasPeriod(d.frac_rep, p)
    /\ d.frac_rep = <<>> /\ d.frac_once # <<>> => Last(d.frac_once) # 0
    /\ d.frac_rep # <<>> /\ d.frac_once # <<>> =>
          Last(d.frac_once) # Last(d.frac_rep)

\* C1: a DecimalTuple that satisfies the invariants of the data model,
\* converted to a BigRational and back, is the same tuple in all four
\* fields.
C1_RoundTrip == dpc = "back" /\ Canonical(dA) => backA = dA

\* a negative tuple with both a non-repeating digit and a repeating block of
\* two digits went there and back
C1_Witness ==
    /\ dpc = "back"
    /\ Canonical(dA)
    /\ dA.sign = "Minus"
    /\ Len(dA.frac_once) = 1
    /\ Len(dA.frac_rep) = 2
    /\ backA = dA

(***************************************************************************)
(* C4                                                                      *)
(***************************************************************************)
\* C4: for two tuples made by DecimalTuple::new, lcp_len is None exactly
\* when the tuples are equal; unequal tuples of the same sign and integer
\* part differ at an index below the bound 2 * max(len_l, len_r).
C4_LcpNoneIffEqual ==
    dpc = "lcp" =>
        /\ (lcpRes = None) <=> (dA = dB)
        /\ dA # dB /\ dA.sign = dB.sign /\ dA.int = dB.int =>
              /\ lcpRes # None
              /\ lcpRes[1] < LcpBound(dA, dB) + (IF dA.sign = "Minus" THEN 1 ELSE 0)

\* two unequal repeating decimals with the same sign and integer part, one
\* with a block of one digit and one with a block of two, were compared
C4_Witness ==
    /\ dpc = "lcp"
    /\ dA # dB /\ dA.sign = dB.sign /\ dA.int = dB.int
    /\ Len(dA.frac_rep) = 1 /\ Len(dB.frac_rep) = 2
    /\ lcpRes # None /\ lcpRes[1] >= 3

(***************************************************************************)
(* C5                                                                      *)
(***************************************************************************)
IntLen(d) == Len(DecDigits(d.int))

DigitChars == <<"0", "1", "2", "3", "4", "5", "6", "7", "8", "9">>

\* [0-9]
IsDigit(c) == \E i \in 1..Len(DigitChars) : DigitChars[i] = c

\* b - b'0'
DigitVal(c) == (CHOOSE i \in 1..Len(DigitChars) : DigitChars[i] = c) - 1

RECURSIVE DigitRun(_, _)
\* [0-9]* at position i: the number of characters it takes
DigitRun(s, i) ==
    IF i <= Len(s) /\ IsDigit(s[i]) THEN 1 + DigitRun(s, i + 1) ELSE 0

RECURSIVE DotRun(_, _)
\* \.* at position i
DotRun(s, i) ==
    IF i <= Len(s) /\ s[i] = "." THEN 1 + DotRun(s, i + 1) ELSE 0

\* the digits among the characters s[a..b]
DigitsOf(s, a, b) == [i \in 1..(b - a + 1) |-> DigitVal(s[a + i - 1])]

\* DECIMAL_PATTERN matched against the whole of s:
\* ^ [+-]? (-?[0-9]+) ( \. ([0-9]+)? ( \( [0-9]+ \.* \) )? )? $
re_captures(s) ==
    LET hasSign == Len(s) >= 1 /\ s[1] \in {"+", "-"}
        i1 == IF hasSign THEN 2 ELSE 1
        intMinus == i1 <= Len(s) /\ s[i1] = "-"
        i2 == IF intMinus THEN i1 + 1 ELSE i1
        n == DigitRun(s, i2)
        i3 == i2 + n
        hasDot == i3 <= Len(s) /\ s[i3] = "."
        i4 == i3 + 1
        m == DigitRun(s, i4)
        i5 == i4 + m
        hasParen == hasDot /\ i5 <= Len(s) /\ s[i5] = "("
        r == DigitRun(s, i5 + 1)
        i6 == i5 + 1 + r
        i7 == i6 + DotRun(s, i6)
        hasRep == hasParen /\ r >= 1 /\ i7 <= Len(s) /\ s[i7] = ")"
        last == IF ~hasDot THEN i3 - 1 ELSE IF hasRep THEN i7 ELSE i5 - 1
    IN IF n >= 1 /\ last = Len(s)
       THEN [matched |-> TRUE,
             neg |-> hasSign /\ s[1] = "-",
             int |-> SubSeq(s, i1, i3 - 1),
             once |-> IF hasDot THEN DigitsOf(s, i4, i5 - 1) ELSE <<>>,
             rep |-> IF hasRep THEN DigitsOf(s, i5 + 1, i6 - 1) ELSE <<>>]
       ELSE NoCaps

RECURSIVE ParseBigUint(_, _)
\* cap_int.parse::<BigUint>() of a run of digit characters
ParseBigUint(cs, acc) ==
    IF cs = <<>> THEN acc
    ELSE ParseBigUint(Tail(cs), acc * 10 + DigitVal(Head(cs)))

\* BigUint's parser takes no '-'
BigUintOk(cs) == Head(cs) # "-"

\* from_str after the match
from_caps(caps) ==
    IF ~BigUintOk(caps.int) THEN Err("BigIntError")
    ELSE Ok(New(IF caps.neg THEN "Minus" ELSE "Plus",
                ParseBigUint(caps.int, 0), caps.once, caps.rep))

\* impl FromStr for DecimalTuple
from_str(s) ==
    LET caps == re_captures(s)
    IN IF ~caps.matched THEN Err("MatchFailed") ELSE from_caps(caps)

(***************************************************************************)
(* number.rs: the tables of tests_parse.                                   *)
(***************************************************************************)
TEST_SUITE_OK == {
    <<<<"1", ".", "2">>,
      DecimalTuple("Plus", 1, <<2>>, <<>>)>>,
    <<<<"1", ".", "2", "(", "3", ")">>,
      DecimalTuple("Plus", 1, <<2>>, <<3>>)>>,
    <<<<"1", "2", ".", "(", "3", ".", ".", ".", ")">>,
      DecimalTuple("Plus", 12, <<>>, <<3>>)>>,
    <<<<"2">>,
      DecimalTuple("Plus", 2, <<>>, <<>>)>>,
    <<<<"1", ".", "(", "0", "0", "1", ")">>,
      DecimalTuple("Plus", 1, <<>>, <<0, 0, 1>>)>>,
    <<<<"0", ".", "(", "9", ")">>,
      DecimalTuple("Plus", 1, <<>>, <<>>)>>,
    <<<<"0", ".", "9", "(", "9", ")">>,
      DecimalTuple("Plus", 1, <<>>, <<>>)>>,
    <<<<"0", ".", "1", "9", "9", "(", "9", ")">>,
      DecimalTuple("Plus", 0, <<2>>, <<>>)>>,
    <<<<"0", ".", "(", "1", "1", ")">>,
      DecimalTuple("Plus", 0, <<>>, <<1>>)>>,
    <<<<"0", ".", "1", "(", "1", ")">>,
      DecimalTuple("Plus", 0, <<>>, <<1>>)>>,
    <<<<"0", ".", "1", "1">>,
      DecimalTuple("Plus", 0, <<1, 1>>, <<>>)>>,
    <<<<"0", ".", "5">>,
      DecimalTuple("Plus", 0, <<5>>, <<>>)>>,
    <<<<"+", "0", ".", "5">>,
      DecimalTuple("Plus", 0, <<5>>, <<>>)>>,
    <<<<"-", "0", ".", "5">>,
      DecimalTuple("Minus", 0, <<5>>, <<>>)>>,
    <<<<"-", "0", ".", "(", "9", ")">>,
      DecimalTuple("Minus", 1, <<>>, <<>>)>>,
    <<<<"0">>,
      DecimalTuple("NoSign", 0, <<>>, <<>>)>>,
    <<<<"+", "0">>,
      DecimalTuple("NoSign", 0, <<>>, <<>>)>>,
    <<<<"-", "0">>,
      DecimalTuple("NoSign", 0, <<>>, <<>>)>>,
    <<<<"-", "0", ".", "0">>,
      DecimalTuple("NoSign", 0, <<>>, <<>>)>>,
    <<<<"-", "0", ".", "0", "(", "0", ")">>,
      DecimalTuple("NoSign", 0, <<>>, <<>>)>>,
    <<<<"0", "0">>,
      DecimalTuple("NoSign", 0, <<>>, <<>>)>>,
    <<<<"0", "0", "1", ".", "1", "0", "(", "0", ")">>,
      DecimalTuple("Plus", 1, <<1>>, <<>>)>>}

TEST_SUITE_ERR == {
    <<"0", ".", "1", "1", "(", ")">>,
    <<"+", "-", "0">>,
    <<"@">>,
    <<"1", ".", "2", ".", "3">>,
    <<"0", ".", "9", "9", "9", ".", ".", ".">>,
    <<"0", ".", "1", "(", "(", "1", ")", ")">>,
    <<" ", "1", " ">>}

(***************************************************************************)
(* from_str driven: a string is matched, then converted.                   *)
(***************************************************************************)
InDigitChars == {"0", "1", "9"}
StrChars == {"+", "-", ".", "(", ")", "0", "9", " "}

DigitStrs(lo, hi) == UNION {[1..k -> InDigitChars] : k \in lo..hi}

RepStrs ==
    {<<"(">> \o d \o dots \o <<")">> :
        d \in DigitStrs(1, MaxStrDigits), dots \in {<<>>, <<".", ".", ".">>}}

FracStrs ==
    {<<>>} \cup {<<".">> \o o \o r :
                    o \in DigitStrs(0, MaxStrDigits), r \in {<<>>} \cup RepStrs}

GenStrings ==
    {sg \o i \o f :
        sg \in {<<>>, <<"+">>, <<"-">>}, i \in DigitStrs(1, MaxStrDigits),
        f \in FracStrs}

JunkStrings == UNION {[1..k -> StrChars] : k \in 0..MaxJunkLen}

StrInputs ==
    GenStrings \cup JunkStrings \cup {t[1] : t \in TEST_SUITE_OK}
        \cup TEST_SUITE_ERR

InitParse ==
    /\ IdleCycle /\ IdleDec /\ IdleOpt /\ IdleEval /\ IdleUi /\ IdleRepl
    /\ pstr = <<>>
    /\ pcaps = NoCaps
    /\ pres = Ok(Zero)
    /\ ppc = "init"

\* let caps = re.captures(s).ok_or(MatchFailed)?;  (a match)
Match(s) ==
    /\ ppc = "init"
    /\ re_captures(s).matched
    /\ pstr' = s
    /\ pcaps' = re_captures(s)
    /\ ppc' = "caps"
    /\ UNCHANGED pres
    /\ UNCHANGED notParseVars

\* let caps = re.captures(s).ok_or(MatchFailed)?;  (no match)
MatchFail(s) ==
    /\ ppc = "init"
    /\ ~re_captures(s).matched
    /\ pstr' = s
    /\ pres' = Err("MatchFailed")
    /\ ppc' = "done"
    /\ UNCHANGED pcaps
    /\ UNCHANGED notParseVars

\* let int: BigUint = cap_int.parse().map_err(BigIntError)?; ...
\* Ok(Self::new(sign, int, once, rep))
Convert ==
    /\ ppc = "caps"
    /\ pres' = from_caps(pcaps)
    /\ ppc' = "done"
    /\ UNCHANGED <<pstr, pcaps>>
    /\ UNCHANGED notParseVars

NextParse ==
    \/ \E s \in StrInputs :
          \/ Match(s)
          \/ MatchFail(s)
    \/ Convert

SpecParse == InitParse /\ [][NextParse]_vars

(***************************************************************************)
(* C2                                                                      *)
(***************************************************************************)
\* the number a sequence of digits writes
DigitsNumber(ds) ==
    LET n == Len(ds)
        term[i \in 0..n] == IF i = 0 THEN 0 ELSE term[i - 1] * 10 + ds[i]
    IN term[n]

\* the rational a matched string denotes:
\* (-1)^neg * (int + once / 10^|once| + rep / ((10^|rep| - 1) * 10^|once|))
Denotes(caps) ==
    LET whole == DigitsNumber([i \in 1..Len(caps.int) |-> DigitVal(caps.int[i])])
        p == Pow(10, Len(caps.once))
        q == Pow(10, Len(caps.rep)) - 1
        num == IF caps.rep = <<>>
               THEN whole * p + DigitsNumber(caps.once)
               ELSE (whole * p + DigitsNumber(caps.once)) * q
                        + DigitsNumber(caps.rep)
        den == IF caps.rep = <<>> THEN p ELSE p * q
    IN RatNew(IF caps.neg THEN -num ELSE num, den)

RECURSIVE Multiplicity(_, _)
\* how often the prime p divides n
Multiplicity(n, p) == IF n % p = 0 THEN 1 + Multiplicity(n \div p, p) ELSE 0

RECURSIVE Order10(_, _, _)
\* the multiplicative order of 10 modulo m, for m coprime to 10: the least
\* k >= 1 with 10^k = 1 (mod m)
Order10(m, x, k) == IF x % m = 1 % m THEN k ELSE Order10(m, (x * 10) % m, k + 1)

\* The one tuple of a value, from number theory and not from the cycle
\* finder: for n/d in lowest terms with d = 2^a * 5^b * m, m coprime to 10,
\* the expansion has max(a, b) digits before a block of ord_m(10) digits,
\* and the block is dropped when it is the single digit 0.
CanonOf(rat) ==
    IF rat[1] = 0 THEN Zero
    ELSE
        LET d == rat[2]
            whole == Abs(rat[1]) \div d
            r0 == Abs(rat[1]) % d
            a == Multiplicity(d, 2)
            b == Multiplicity(d, 5)
            m == d \div (Pow(2, a) * Pow(5, b))
            pre == Max(a, b)
            per == Order10(m, 10 % m, 1)
            digit(i) == ((r0 * Pow(10, i)) \div d) % 10
            once == [i \in 1..pre |-> digit(i)]
            rep == [i \in 1..per |-> digit(pre + i)]
        IN DecimalTuple(IF rat[1] < 0 THEN "Minus" ELSE "Plus", whole, once,
                        IF rep = <<0>> THEN <<>> ELSE rep)

\* C2: every string from_str accepts parses to the one tuple of the value
\* it denotes, so strings of equal value parse to equal tuples; in that
\* tuple frac_rep is never [0], every digit is in 0..9 and the sign is NoSign
\* exactly for zero.  The strings of tests_parse parse as its tables say
\* (0.(9), 0.9(9) to 1; 0.1(1), 0.(11) to 0.(1); -0, +0, 00, -0.0(0) to zero).
C2_CanonicalForm ==
    ppc = "done" =>
        /\ pres.ok =>
              /\ pres.dt = CanonOf(Denotes(pcaps))
              /\ pres.dt.frac_rep # <<0>>
              /\ \A i \in 1..Len(pres.dt.frac_once) : pres.dt.frac_once[i] \in 0..9
              /\ \A i \in 1..Len(pres.dt.frac_rep) : pres.dt.frac_rep[i] \in 0..9
              /\ (pres.dt.sign = "NoSign") <=> RatIsZero(Denotes(pcaps))
              /\ pres.dt.sign = "NoSign" => pres.dt = Zero
        /\ \A t \in TEST_SUITE_OK : pstr = t[1] => pres = Ok(t[2])
        /\ pstr \in TEST_SUITE_ERR => ~pres.ok

\* 0.9(9) was parsed, to the tuple of 1
C2_Witness ==
    /\ ppc = "done"
    /\ pstr = <<"0", ".", "9", "(", "9", ")">>
    /\ pres = Ok(DecimalTuple("Plus", 1, <<>>, <<>>))

(***************************************************************************)
(* ast.rs: EstimateContext and EvalOptions.  A u32 is the set of the       *)
(* positions of its one bits.                                              *)
(***************************************************************************)
U32 == 0..31

\* 1 << 0, 1 << 1, 1 << 2
CTX_LIT == {0}
CTX_PAR == {1}
CTX_BIN == {2}

BitOr(a, b) == a \cup b
BitAnd(a, b) == a \cap b
BitNot(a) == U32 \ a

set_bits(bits) ==
    EstimateContext(BitAnd(bits, CTX_LIT) # {},
                    BitAnd(bits, CTX_PAR) # {},
                    BitAnd(bits, CTX_BIN) # {})

get_bits(self) ==
    BitOr(BitOr(IF self.literal THEN CTX_LIT ELSE {},
                IF self.paren THEN CTX_PAR ELSE {}),
          IF self.binary THEN CTX_BIN ELSE {})

\* an unknown token that resets the flags
UnexpectedValueResets(self, s) == set_bits({})

\* _ => eprintln!("unexpected value: {s}")
UnexpectedValue(self, s) == self

\* update in which a bare token adds its flag as the + token does
update_token_adding(self, s) ==
    CASE s \in {"lit", "+lit"} -> set_bits(BitOr(get_bits(self), CTX_LIT))
      [] s \in {"par", "+par"} -> set_bits(BitOr(get_bits(self), CTX_PAR))
      [] s \in {"bin", "+bin"} -> set_bits(BitOr(get_bits(self), CTX_BIN))
      [] s = "-lit" -> set_bits(BitOr(get_bits(self), BitNot(CTX_LIT)))
      [] s = "-par" -> set_bits(BitOr(get_bits(self), BitNot(CTX_PAR)))
      [] s = "-bin" -> set_bits(BitOr(get_bits(self), BitNot(CTX_BIN)))
      [] s \in {"each", "+each"} -> set_bits(BitNot({}))
      [] s = "-each" -> set_bits({})
      [] OTHER -> UnexpectedValue(self, s)

\* EstimateContext::update: the match on one token s of arg.split(",")
update_token(self, s) ==
    CASE s = "lit" -> set_bits(CTX_LIT)
      [] s = "par" -> set_bits(CTX_PAR)
      [] s = "bin" -> set_bits(CTX_BIN)
      [] s = "+lit" -> set_bits(BitOr(get_bits(self), CTX_LIT))
      [] s = "+par" -> set_bits(BitOr(get_bits(self), CTX_PAR))
      [] s = "+bin" -> set_bits(BitOr(get_bits(self), CTX_BIN))
      [] s = "-lit" -> set_bits(BitOr(get_bits(self), BitNot(CTX_LIT)))
      [] s = "-par" -> set_bits(BitOr(get_bits(self), BitNot(CTX_PAR)))
      [] s = "-bin" -> set_bits(BitOr(get_bits(self), BitNot(CTX_BIN)))
      [] s \in {"each", "+each"} -> set_bits(BitNot({}))
      [] s = "-each" -> set_bits({})
      [] OTHER -> UnexpectedValue(self, s)

\* the variants of Expr
ExprVariants == {"Literal", "Mul", "Div", "Add", "Sub", "Paren", "NegParen"}

\* Expr::eval: the expr_ty of the EvalContext of a node
ExprTy(variant) ==
    CASE variant = "Literal" -> "Literal"
      [] variant \in {"Add", "Sub", "Mul", "Div"} -> "Binary"
      [] variant \in {"Paren", "NegParen"} -> "Paren"

EvalContext(variant, depth) == [expr_ty |-> ExprTy(variant), depth |-> depth]

\* do_estimate with the paren and binary flags exchanged
do_estimate_swapped(self, ctx) ==
    IF ctx.depth = 0 THEN TRUE
    ELSE CASE ctx.expr_ty = "Literal" -> self.literal
           [] ctx.expr_ty = "Paren" -> self.binary
           [] ctx.expr_ty = "Binary" -> self.paren

\* EvalOptions::do_estimate
do_estimate(self, ctx) ==
    IF ctx.depth = 0 THEN TRUE
    ELSE CASE ctx.expr_ty = "Literal" -> self.literal
           [] ctx.expr_ty = "Paren" -> self.paren
           [] ctx.expr_ty = "Binary" -> self.binary

(***************************************************************************)
(* EvalOptions::update driven.  A command is the sequence of its           *)
(* key=value pairs as arg.split(";") and splitn(2, "=") leave them, and a  *)
(* value the sequence of its tokens as split(",") and trim leave them.     *)
(***************************************************************************)
Tokens ==
    {"lit", "par", "bin", "+lit", "+par", "+bin", "-lit", "-par", "-bin",
     "each", "+each", "-each", "all", ""}

Keys == {"estimate", "verbose"}

\* "".split(",") still yields the one token ""
TokenSeqs(n) == UNION {[1..k -> Tokens] : k \in 1..n}

Segment(key, toks) == [key |-> key, toks |-> toks]

SegmentsUpTo(n) ==
    {Segment("estimate", t) : t \in TokenSeqs(n)}
        \cup {Segment("verbose", <<>>)}
        \cup (IF n >= 1 THEN {Segment("verbose", <<"+lit">>)} ELSE {})

\* the commands of at most s pairs and t tokens
RECURSIVE CommandsUpTo(_, _)
CommandsUpTo(s, t) ==
    IF s = 0 THEN {<<>>}
    ELSE {<<>>} \cup
         UNION {{<<seg>> \o rest : rest \in CommandsUpTo(s - 1, t - Len(seg.toks))} :
                    seg \in SegmentsUpTo(t)}

\* "".split(";") still yields one pair
Commands(s, t) == CommandsUpTo(s, t) \ {<<>>}

InitOptions ==
    /\ IdleCycle /\ IdleDec /\ IdleParse /\ IdleEval /\ IdleUi /\ IdleRepl
    /\ estimate = DefaultEstimate
    /\ queue = <<>>
    /\ opre = DefaultEstimate
    /\ olast = NoItem
    /\ ocmd = [from |-> DefaultEstimate, cmd |-> <<>>]
    /\ ectx = NoCtx
    /\ eres = FALSE
    /\ opc = "idle"

\* opts.update(arg): the loop over arg.split(";") starts
Update(cmd) ==
    /\ opc = "idle"
    /\ queue' = cmd
    /\ ocmd' = [from |-> estimate, cmd |-> cmd]
    /\ opre' = estimate
    /\ olast' = NoItem
    /\ opc' = "run"
    /\ ectx' = NoCtx
    /\ eres' = FALSE
    /\ UNCHANGED estimate
    /\ UNCHANGED notOptVars

\* what is left of the command once the head pair has lost its first token
PopToken(q) == <<Segment(Head(q).key, Tail(Head(q).toks))>> \o Tail(q)

\* "estimate" => self.set_estimate(vec![rem]): one token of the value
StepToken ==
    /\ opc = "run"
    /\ queue # <<>>
    /\ Head(queue).key = "estimate"
    /\ Head(queue).toks # <<>>
    /\ opre' = estimate
    /\ estimate' = update_token(estimate, Head(Head(queue).toks))
    /\ olast' = [kind |-> "token", text |-> Head(Head(queue).toks)]
    /\ queue' = PopToken(queue)
    /\ UNCHANGED <<ocmd, ectx, eres, opc>>
    /\ UNCHANGED notOptVars

\* the value of an "estimate" pair is used up: on to the next pair
StepNextPair ==
    /\ opc = "run"
    /\ queue # <<>>
    /\ Head(queue).key = "estimate"
    /\ Head(queue).toks = <<>>
    /\ queue' = Tail(queue)
    /\ UNCHANGED <<estimate, opre, olast, ocmd, ectx, eres, opc>>
    /\ UNCHANGED notOptVars

\* _ => eprintln!("unexpected key: {key}")
StepKey ==
    /\ opc = "run"
    /\ queue # <<>>
    /\ Head(queue).key # "estimate"
    /\ opre' = estimate
    /\ olast' = [kind |-> "key", text |-> Head(queue).key]
    /\ queue' = Tail(queue)
    /\ UNCHANGED <<estimate, ocmd, ectx, eres, opc>>
    /\ UNCHANGED notOptVars

\* the loop over arg.split(";") ends
UpdateReturn ==
    /\ opc = "run"
    /\ queue = <<>>
    /\ opc' = "idle"
    /\ opre' = estimate
    /\ olast' = NoItem
    /\ ocmd' = [from |-> estimate, cmd |-> <<>>]
    /\ UNCHANGED <<estimate, queue, ectx, eres>>
    /\ UNCHANGED notOptVars

\* opts.do_estimate(ctx), for the context Expr::eval makes of a node
DoEstimate(variant, depth) ==
    /\ opc = "idle"
    /\ ectx' = [node |-> variant,
                expr_ty |-> EvalContext(variant, depth).expr_ty,
                depth |-> EvalContext(variant, depth).depth]
    /\ eres' = do_estimate(estimate, EvalContext(variant, depth))
    /\ UNCHANGED <<estimate, queue, opre, olast, ocmd, opc>>
    /\ UNCHANGED notOptVars

NextOptions ==
    \/ \E cmd \in Commands(MaxSegments, MaxCmdTokens) : Update(cmd)
    \/ StepToken
    \/ StepNextPair
    \/ StepKey
    \/ UpdateReturn
    \/ \E variant \in ExprVariants, depth \in 0..MaxDepth :
          DoEstimate(variant, depth)

SpecOptions == InitOptions /\ [][NextOptions]_vars

(***************************************************************************)
(* Claims about the options.                                               *)
(***************************************************************************)
\* the command is applied in full and update has not yet returned
Applied(from, cmd) ==
    /\ opc = "run"
    /\ queue = <<>>
    /\ ocmd = [from |-> from, cmd |-> cmd]

EstimateCmd(toks) == <<Segment("estimate", toks)>>

LastToken(s) == olast = [kind |-> "token", text |-> s]

FlagStates == [literal : BOOLEAN, paren : BOOLEAN, binary : BOOLEAN]

\* C6: do_estimate is true exactly when the depth is 0 or the flag of the
\* node's kind is set (literal for Literal, paren for Paren and NegParen,
\* binary for Add, Sub, Mul and Div); after +lit,+bin on the default options
\* a Paren node below the root is not reported, literals and binary nodes
\* are at every depth.
C6_DoEstimate ==
    /\ ectx.node # "None" =>
          eres = (\/ ectx.depth = 0
                  \/ ectx.node = "Literal" /\ estimate.literal
                  \/ ectx.node \in {"Paren", "NegParen"} /\ estimate.paren
                  \/ ectx.node \in {"Add", "Sub", "Mul", "Div"} /\ estimate.binary)
    /\ Applied(DefaultEstimate, EstimateCmd(<<"+lit", "+bin">>)) =>
          /\ \A d \in 1..MaxDepth :
                /\ ~do_estimate(estimate, EvalContext("Paren", d))
                /\ ~do_estimate(estimate, EvalContext("NegParen", d))
          /\ \A d \in 0..MaxDepth :
                \A v \in {"Literal", "Add", "Sub", "Mul", "Div"} :
                    do_estimate(estimate, EvalContext(v, d))

C6_Witness ==
    /\ estimate = EstimateContext(TRUE, FALSE, TRUE)
    /\ ectx = [node |-> "NegParen", expr_ty |-> "Paren", depth |-> 1]
    /\ eres = FALSE

\* C7: -lit, -par, -bin set the named flag to false and leave the other two
\* as they were; after -bin on the default options only the root of 1+2,
\* and neither of its literals, is reported.
C7_MinusClearsFlag ==
    /\ LastToken("-lit") => estimate = [opre EXCEPT !.literal = FALSE]
    /\ LastToken("-par") => estimate = [opre EXCEPT !.paren = FALSE]
    /\ LastToken("-bin") => estimate = [opre EXCEPT !.binary = FALSE]
    /\ Applied(DefaultEstimate, EstimateCmd(<<"-bin">>)) =>
          /\ do_estimate(estimate, EvalContext("Add", 0))
          /\ ~do_estimate(estimate, EvalContext("Literal", 1))

\* C8 as the specification has it: a bare token acts as its + token does,
\* so lit,bin ends with literal and binary both true.
C8_BareSameAsPlus ==
    /\ LastToken("lit") => estimate = [opre EXCEPT !.literal = TRUE]
    /\ LastToken("par") => estimate = [opre EXCEPT !.paren = TRUE]
    /\ LastToken("bin") => estimate = [opre EXCEPT !.binary = TRUE]
    /\ \A f \in FlagStates :
          Applied(f, EstimateCmd(<<"lit", "bin">>)) =>
              estimate.literal /\ estimate.binary

\* C8: a bare token sets its flag and clears the other two, a + token sets
\* its flag and leaves the other two as they were; so lit,bin ends with
\* binary alone, and +lit,+bin with literal and binary true and paren as it
\* was.
C8_BareAssignsPlusAdds ==
    /\ LastToken("lit") => estimate = EstimateContext(TRUE, FALSE, FALSE)
    /\ LastToken("par") => estimate = EstimateContext(FALSE, TRUE, FALSE)
    /\ LastToken("bin") => estimate = EstimateContext(FALSE, FALSE, TRUE)
    /\ LastToken("+lit") => estimate = [opre EXCEPT !.literal = TRUE]
    /\ LastToken("+par") => estimate = [opre EXCEPT !.paren = TRUE]
    /\ LastToken("+bin") => estimate = [opre EXCEPT !.binary = TRUE]
    /\ \A f \in FlagStates :
          /\ Applied(f, EstimateCmd(<<"lit", "bin">>)) =>
                estimate = EstimateContext(FALSE, FALSE, TRUE)
          /\ Applied(f, EstimateCmd(<<"+lit", "+bin">>)) =>
                estimate = EstimateContext(TRUE, f.paren, TRUE)

C8_Witness ==
    /\ Applied(EstimateContext(TRUE, TRUE, FALSE), EstimateCmd(<<"lit", "bin">>))
    /\ estimate = EstimateContext(FALSE, FALSE, TRUE)

NineTokens ==
    {"lit", "+lit", "-lit", "par", "+par", "-par", "bin", "+bin", "-bin"}

EachTokens == {"each", "+each", "-each"}

\* the flags after the tokens toks, one after the other
RECURSIVE AfterTokens(_, _)
AfterTokens(self, toks) ==
    IF toks = <<>> THEN self
    ELSE AfterTokens(update_token(self, Head(toks)), Tail(toks))

\* the flags after the pairs of cmd, one after the other
RECURSIVE AfterCommand(_, _)
AfterCommand(self, cmd) ==
    IF cmd = <<>> THEN self
    ELSE AfterCommand(IF Head(cmd).key = "estimate"
                          THEN AfterTokens(self, Head(cmd).toks)
                          ELSE self,
                      Tail(cmd))

\* cmd without the pairs of another key and without the tokens outside known
RECURSIVE KnownOnly(_, _)
KnownOnly(cmd, known) ==
    IF cmd = <<>> THEN <<>>
    ELSE IF Head(cmd).key # "estimate" THEN KnownOnly(Tail(cmd), known)
    ELSE <<Segment("estimate",
                   SelectSeq(Head(cmd).toks, LAMBDA t : t \in known))>>
             \o KnownOnly(Tail(cmd), known)

\* C9 as the specification has it: every token outside the nine leaves the
\* flags as they were.
C9_OutsideNineIgnored ==
    /\ olast.kind = "token" /\ olast.text \notin NineTokens => estimate = opre
    /\ olast.kind = "key" => estimate = opre
    /\ opc = "run" /\ queue = <<>> =>
          estimate = AfterCommand(ocmd.from, KnownOnly(ocmd.cmd, NineTokens))

\* C9: a token outside the nine and outside each, +each, -each, and a key
\* other than estimate, leave the flags as they were, and what follows them
\* in the command is applied as if they had not been there; each and +each
\* set all three flags and -each clears them.
C9_UnknownIgnored ==
    /\ olast.kind = "token" /\ olast.text \notin NineTokens \cup EachTokens =>
          estimate = opre
    /\ olast.kind = "key" => estimate = opre
    /\ LastToken("each") \/ LastToken("+each") =>
          estimate = EstimateContext(TRUE, TRUE, TRUE)
    /\ LastToken("-each") => estimate = DefaultEstimate
    /\ opc = "run" /\ queue = <<>> =>
          estimate = AfterCommand(ocmd.from,
                                  KnownOnly(ocmd.cmd, NineTokens \cup EachTokens))

C9_Witness ==
    /\ Applied(EstimateContext(FALSE, TRUE, FALSE),
               <<Segment("verbose", <<>>), Segment("estimate", <<"all", "+bin">>)>>)
    /\ estimate = EstimateContext(FALSE, TRUE, TRUE)

(***************************************************************************)
(* f64.  The model keeps the format of a binary floating-point number      *)
(* (sign, infinities, NaN, signed zero, round to nearest, ties to even)    *)
(* and shortens the significand from 53 bits to FloatBits; the exponent is *)
(* not bounded, no expression of the model comes near the range of f64.    *)
(* A finite value is its sign and its magnitude, a reduced fraction.       *)
(***************************************************************************)
Fin(neg, mag) == [cls |-> "fin", neg |-> neg, mag |-> mag]
Inf(neg) == [cls |-> "inf", neg |-> neg, mag |-> <<0, 1>>]
NaN == [cls |-> "nan", neg |-> FALSE, mag |-> <<0, 1>>]

FltIsZero(a) == a.cls = "fin" /\ RatIsZero(a.mag)

RatLess(a, b) == a[1] * b[2] < b[1] * a[2]

Pow2(e) == IF e >= 0 THEN <<Pow(2, e), 1>> ELSE <<1, Pow(2, -e)>>

RECURSIVE Normalize(_, _)
\* q = m * 2^e with 2^(FloatBits-1) <= m < 2^FloatBits, for q > 0
Normalize(q, e) ==
    IF RatLess(q, <<Pow(2, FloatBits - 1), 1>>)
        THEN Normalize(RatMul(q, <<2, 1>>), e - 1)
    ELSE IF ~RatLess(q, <<Pow(2, FloatBits), 1>>)
        THEN Normalize(RatMul(q, <<1, 2>>), e + 1)
    ELSE <<q, e>>

\* the integer nearest to m >= 0, the even one of two equally near
RoundHalfEven(m) ==
    LET fl == m[1] \div m[2]
        twice == 2 * (m[1] - fl * m[2])
    IN IF twice > m[2] THEN fl + 1
       ELSE IF twice < m[2] THEN fl
       ELSE IF fl % 2 = 0 THEN fl ELSE fl + 1

\* the representable magnitude nearest to q >= 0
Round(q) ==
    IF RatIsZero(q) THEN q
    ELSE LET me == Normalize(q, 0)
         IN RatMul(<<RoundHalfEven(me[1]), 1>>, Pow2(me[2]))

\* the value of a finite number as a fraction
FltRat(a) == IF a.neg THEN RatNeg(a.mag) ELSE a.mag

FltNeg(a) == IF a.cls = "nan" THEN NaN ELSE [a EXCEPT !.neg = ~a.neg]

FltAdd(a, b) ==
    IF a.cls = "nan" \/ b.cls = "nan" THEN NaN
    ELSE IF a.cls = "inf" /\ b.cls = "inf"
        THEN IF a.neg = b.neg THEN a ELSE NaN
    ELSE IF a.cls = "inf" THEN a
    ELSE IF b.cls = "inf" THEN b
    ELSE LET sum == RatAdd(FltRat(a), FltRat(b))
         IN IF RatIsZero(sum) THEN Fin(a.neg /\ b.neg, sum)
            ELSE Fin(sum[1] < 0, Round(RatAbs(sum)))

FltSub(a, b) == FltAdd(a, FltNeg(b))

FltMul(a, b) ==
    IF a.cls = "nan" \/ b.cls = "nan" THEN NaN
    ELSE IF a.cls = "inf" \/ b.cls = "inf"
        THEN IF FltIsZero(a) \/ FltIsZero(b) THEN NaN ELSE Inf(a.neg # b.neg)
    ELSE Fin(a.neg # b.neg, Round(RatMul(a.mag, b.mag)))

FltDiv(a, b) ==
    IF a.cls = "nan" \/ b.cls = "nan" THEN NaN
    ELSE IF a.cls = "inf"
        THEN IF b.cls = "inf" THEN NaN ELSE Inf(a.neg # b.neg)
    ELSE IF b.cls = "inf" THEN Fin(a.neg # b.neg, <<0, 1>>)
    ELSE IF FltIsZero(b)
        THEN IF FltIsZero(a) THEN NaN ELSE Inf(a.neg # b.neg)
    ELSE Fin(a.neg # b.neg, Round(RatDiv(a.mag, b.mag)))

(***************************************************************************)
(* ast.rs: LitComponent.                                                   *)
(***************************************************************************)
LitComponent(digits, exponent) == [digits |-> digits, exponent |-> exponent]

\* BigRational::pow with an i32 exponent
RatPow10(e) == IF e >= 0 THEN <<Pow(10, e), 1>> ELSE <<1, Pow(10, -e)>>

\* format!("{}E{}", digits, exponent).parse::<f64>()
ParseF64(digits, exponent) ==
    LET rat == RatMul(RationalFromDecimal(from_str(digits).dt), RatPow10(exponent))
    IN Fin(Head(digits) = "-", Round(RatAbs(rat)))

\* LitComponent::eval
LitEval(self) ==
    LET rat == RationalFromDecimal(from_str(self.digits).dt)
        exp == RatPow10(self.exponent)
        flt == ParseF64(self.digits, self.exponent)
    IN <<RatMul(rat, exp), flt>>

(***************************************************************************)
(* parser.rs.  A position is a byte offset, the lines are ASCII; a parser  *)
(* at index i (from 1) of s answers with the node and the index it has     *)
(* reached.  attempt() and the committed failures of combine come to the   *)
(* same here: a factor that fails fails the line.                          *)
(***************************************************************************)
Fail == [ok |-> FALSE, node |-> <<>>, next |-> 0]
Parsed(node, next) == [ok |-> TRUE, node |-> node, next |-> next]

\* a literal whose range counts its characters from 1
LiteralOneBased(lit, range) ==
    [ty |-> "Literal", lit |-> lit, range |-> <<range[1] + 1, range[2] + 1>>]

Literal(lit, range) == [ty |-> "Literal", lit |-> lit, range |-> range]
Binary(ty, lhs, rhs, range) == [ty |-> ty, lhs |-> lhs, rhs |-> rhs, range |-> range]
Paren(ty, inner, range) == [ty |-> ty, inner |-> inner, range |-> range]

\* the one element of a set of one element; {e(x) : x \in {v}} works e out
\* with v worked out once
Only(S) == CHOOSE x \in S : TRUE

RECURSIVE spaces(_, _)
\* spaces(): the index of the first character at or after i that is no space
spaces(s, i) == IF i <= Len(s) /\ s[i] = " " THEN spaces(s, i + 1) ELSE i

At(s, i, cs) == i <= Len(s) /\ s[i] \in cs

\* parse_literal_; the exponents of the model fit an i32
parse_literal(s, i) ==
    LET neg == At(s, i, {"-"})
        i1 == IF neg THEN i + 1 ELSE i
        n == DigitRun(s, i1)
        i2 == i1 + n
        hasDot == At(s, i2, {"."})
        m == IF hasDot THEN DigitRun(s, i2 + 1) ELSE 0
        i3 == IF hasDot THEN i2 + 1 + m ELSE i2
        hasE == At(s, i3, {"E", "e"})
        hasSgn == hasE /\ At(s, i3 + 1, {"+", "-"})
        i5 == IF hasSgn THEN i3 + 2 ELSE i3 + 1
        k == IF hasE THEN DigitRun(s, i5) ELSE 0
        i6 == IF hasE THEN i5 + k ELSE i3
        digits == <<IF neg THEN "-" ELSE "+">> \o SubSeq(s, i1, i2 - 1)
                      \o (IF hasDot THEN <<".">> \o SubSeq(s, i2 + 1, i3 - 1)
                          ELSE <<>>)
        exp == IF hasE
               THEN (IF hasSgn /\ s[i3 + 1] = "-" THEN -1 ELSE 1)
                        * ParseBigUint(SubSeq(s, i5, i6 - 1), 0)
               ELSE 0
    IN IF n >= 1 /\ (hasDot => m >= 1) /\ (hasE => k >= 1)
       THEN Parsed(LitComponent(digits, exp), i6)
       ELSE Fail

\* op(s): attempt(spaces, (position, choice, position), spaces)
op(s, i, cs) ==
    LET j == spaces(s, i)
    IN IF At(s, j, cs)
       THEN [ok |-> TRUE, op |-> s[j], range |-> <<j - 1, j>>,
             next |-> spaces(s, j + 1)]
       ELSE [ok |-> FALSE, op |-> "", range |-> <<0, 0>>, next |-> i]

BinaryTy(c) ==
    CASE c = "+" -> "Add" [] c = "-" -> "Sub" [] c = "*" -> "Mul" [] c = "/" -> "Div"

RECURSIVE parse_expr(_, _)
RECURSIVE parse_term(_, _)
RECURSIVE parse_factor(_, _)
RECURSIVE chainl1_expr(_, _, _)
RECURSIVE chainl1_term(_, _, _)

\* a chain that groups to the right: the rest of the line is the right operand
chainr1_expr(s, l, i) ==
    Only({IF ~o.ok THEN Parsed(l, i)
          ELSE Only({IF ~r.ok THEN Fail
                     ELSE Parsed(Binary(BinaryTy(o.op), l, r.node, o.range), r.next) :
                        r \in {parse_expr(s, o.next)}}) :
             o \in {op(s, i, {"+", "-"})}})

\* chainl1(parse_term(), tok) after its first term
chainl1_expr(s, l, i) ==
    Only({IF ~o.ok THEN Parsed(l, i)
          ELSE Only({IF ~r.ok THEN Fail
                     ELSE chainl1_expr(s, Binary(BinaryTy(o.op), l, r.node, o.range),
                                       r.next) :
                        r \in {parse_term(s, o.next)}}) :
             o \in {op(s, i, {"+", "-"})}})

parse_expr(s, i) ==
    Only({IF l.ok THEN chainl1_expr(s, l.node, l.next) ELSE Fail :
             l \in {parse_term(s, i)}})

\* chainl1(parse_factor(), tok) after its first factor
chainl1_term(s, l, i) ==
    Only({IF ~o.ok THEN Parsed(l, i)
          ELSE Only({IF ~r.ok THEN Fail
                     ELSE chainl1_term(s, Binary(BinaryTy(o.op), l, r.node, o.range),
                                       r.next) :
                        r \in {parse_factor(s, o.next)}}) :
             o \in {op(s, i, {"*", "/"})}})

parse_term(s, i) ==
    Only({IF l.ok THEN chainl1_term(s, l.node, l.next) ELSE Fail :
             l \in {parse_factor(s, i)}})

\* what follows the opening of parens or neg_parens, which began at i
Parenthesized(s, i, open, ty) ==
    Only({LET close == spaces(s, x.next)
          IN IF x.ok /\ At(s, close, {")"})
             THEN Parsed(Paren(ty, x.node, <<i - 1, close>>), close + 1)
             ELSE Fail :
             x \in {parse_expr(s, spaces(s, open + 1))}})

\* attempt(literal).or(parens).or(neg_parens)
parse_factor(s, i) ==
    LET lit == parse_literal(s, i)
    IN IF lit.ok THEN Parsed(Literal(lit.node, <<i - 1, lit.next - 1>>), lit.next)
       ELSE IF At(s, i, {"("}) THEN Parenthesized(s, i, i, "Paren")
       ELSE IF At(s, i, {"-"}) /\ At(s, spaces(s, i + 1), {"("})
           THEN Parenthesized(s, i, spaces(s, i + 1), "NegParen")
       ELSE Fail

\* spaces().with(parse_expr()).skip((spaces(), eof()))
parse_line(s) ==
    Only({IF x.ok /\ spaces(s, x.next) = Len(s) + 1 THEN x ELSE Fail :
             x \in {parse_expr(s, spaces(s, 1))}})

(***************************************************************************)
(* ast.rs: Expr::eval, with the frames ui::estimate prints on the way.     *)
(***************************************************************************)
Frame(val, range) == [val |-> val, range |-> range]

EvalOk(val, range, frames) ==
    [ok |-> TRUE, val |-> val, range |-> range, frames |-> frames]

\* a ZeroDivision that reports the failing node before it returns
ZeroDivisionFramed(range, frames) ==
    [ok |-> FALSE, val |-> <<<<0, 1>>, NaN>>, range |-> range,
     frames |-> frames \o <<Frame(<<<<0, 1>>, NaN>>, range)>>]

\* Err(EvalError::ZeroDivision(range)), after the frames printed so far
ZeroDivision(range, frames) ==
    [ok |-> FALSE, val |-> <<<<0, 1>>, NaN>>, range |-> range, frames |-> frames]

\* ui::estimate: nothing is printed unless do_estimate
estimate_frame(val, range, opts, ctx) ==
    IF do_estimate(opts, ctx) THEN <<Frame(val, range)>> ELSE <<>>

\* a divisor is taken for zero when its f64 is
DivisorIsZeroFlt(rhs) == FltIsZero(rhs.val[2])

\* rhs.0.0.is_zero()
DivisorIsZero(rhs) == RatIsZero(rhs.val[1])

BinaryVal(ty, l, r) ==
    CASE ty = "Mul" -> <<RatMul(l[1], r[1]), FltMul(l[2], r[2])>>
      [] ty = "Div" -> <<RatDiv(l[1], r[1]), FltDiv(l[2], r[2])>>
      [] ty = "Add" -> <<RatAdd(l[1], r[1]), FltAdd(l[2], r[2])>>
      [] ty = "Sub" -> <<RatSub(l[1], r[1]), FltSub(l[2], r[2])>>

RECURSIVE eval(_, _, _)
eval(self, opts, depth) ==
    LET ctx == EvalContext(self.ty, depth)
    IN IF self.ty = "Literal"
       THEN Only({EvalOk(val, self.range, estimate_frame(val, self.range, opts, ctx)) :
                     val \in {LitEval(self.lit)}})
       ELSE IF self.ty \in {"Paren", "NegParen"}
       THEN Only({IF ~inner.ok THEN inner
                  ELSE Only({EvalOk(val, self.range,
                                    inner.frames
                                        \o estimate_frame(val, self.range, opts, ctx)) :
                                val \in {IF self.ty = "Paren" THEN inner.val
                                         ELSE <<RatNeg(inner.val[1]),
                                                FltNeg(inner.val[2])>>}}) :
                     inner \in {eval(self.inner, opts, depth + 1)}})
       ELSE Only({IF ~lhs.ok THEN lhs
                  ELSE Only({LET range == <<lhs.range[1], rhs.range[2]>>
                                 frames == lhs.frames \o rhs.frames
                             IN IF ~rhs.ok THEN [rhs EXCEPT !.frames = frames]
                                ELSE IF self.ty = "Div" /\ DivisorIsZero(rhs)
                                    THEN ZeroDivision(range, frames)
                                ELSE Only({EvalOk(val, range,
                                                  frames \o estimate_frame(val, range,
                                                                           opts, ctx)) :
                                              val \in {BinaryVal(self.ty, lhs.val,
                                                                 rhs.val)}}) :
                                rhs \in {eval(self.rhs, opts, depth + 1)}}) :
                     lhs \in {eval(self.lhs, opts, depth + 1)}})

(***************************************************************************)
(* parse_line and eval driven: the lines.                                  *)
(***************************************************************************)
\* the lines of the tests and of the comments of the source, and lines with
\* spaces, exponents, fractions, errors inside errors, and floats that
\* differ from the exact value
SourceLines ==
    {<<"1", " ", "*", " ", "(", "2", " ", "-", " ", "3", " ", "+", " ", "4", ")", " ", "/", " ", "5">>,
     <<"1", "/", "3">>,
     <<"0", ".", "1", " ", "+", " ", "0", ".", "2">>,
     <<"1", " ", "/", " ", "0">>,
     <<"-", "(", "2", " ", "+", " ", "3", ")", " ", "*", " ", "2">>,
     <<"1", "e", "3", " ", "+", " ", "5">>,
     <<"1", " ", "+">>,
     <<"1", "+", "2">>,
     <<"(", "1", "+", "2", ")">>,
     <<"-", " ", "1">>,
     <<"1", ".", "5", "/", "0", ".", "0">>,
     <<"1", "/", "-", "0">>,
     <<"1", "/", "0", "/", "2">>,
     <<"0", "/", "0">>,
     <<" ", "1", " ", "/", " ", "(", " ", "0", " ", ")", " ">>,
     <<"(", "1", "/", "(", "9", "+", "1", "-", "1", "0", ")", ")", "*", "2">>,
     <<"1", "/", "(", "9", "-", "8", ")">>,
     <<"1", "/", "(", "0", "-", "1", "/", "(", "9", "-", "8", ")", ")">>,
     <<"2", "*", "(", "1", "/", "0", ")", "+", "1", "/", "0">>,
     <<"(", "1", "/", "0">>,
     <<"1", "e", "-", "1", "/", "0", "e", "1">>,
     <<"9", "/", "(", "1", "-", "1", ")", "-", "1", "/", "0">>,
     <<>>}

LitStrs == {<<"0">>, <<"1">>, <<"9">>}
OpChars == {"+", "-", "*", "/"}

RECURSIVE ExprStrs(_)
\* an expression of k operators as an operand: bare, in (), or in -()
Operands(k) ==
    IF k = 0 THEN LitStrs
    ELSE ExprStrs(k)
             \cup {<<"(">> \o x \o <<")">> : x \in ExprStrs(k)}
             \cup {<<"-", "(">> \o x \o <<")">> : x \in ExprStrs(k)}

\* the expressions of exactly k operators
ExprStrs(k) ==
    IF k = 0 THEN LitStrs
    ELSE UNION {{a \o <<o>> \o b :
                    a \in Operands(i), o \in OpChars, b \in Operands(k - 1 - i)} :
                        i \in 0..(k - 1)}

\* a op b op c without parentheses: precedence and associativity show
ChainStrs ==
    {a \o <<o1>> \o b \o <<o2>> \o c :
        a \in LitStrs, o1 \in OpChars, b \in LitStrs, o2 \in OpChars, c \in LitStrs}

\* the lines of at most n operators, and the chains
Lines(n) == SourceLines \cup ChainStrs \cup UNION {ExprStrs(k) : k \in 0..n}

\* the values of -e on the command line
EstimateArgs == {"each", "+lit", "+par", "+bin", "-each"}

InitEval ==
    /\ IdleCycle /\ IdleDec /\ IdleParse /\ IdleOpt /\ IdleUi /\ IdleRepl
    /\ eline = <<>>
    /\ etree = NoTree
    /\ eout = NoOut
    /\ epc = "ready"

\* EvalOptions::with_estimate(vec![s]), before any line is read
WithEstimate(s) ==
    /\ epc = "ready"
    /\ estimate' = update_token(estimate, s)
    /\ UNCHANGED <<queue, opre, olast, ocmd, ectx, eres, opc>>
    /\ UNCHANGED evalVars
    /\ UNCHANGED notEvalVars

\* a line comes in
ReadLine(s) ==
    /\ epc = "ready"
    /\ eline' = s
    /\ epc' = "read"
    /\ UNCHANGED <<etree, eout>>
    /\ UNCHANGED <<optVars, notEvalVars>>

\* parse_line().easy_parse(s) is Ok
ParseOk ==
    /\ epc = "read"
    /\ parse_line(eline).ok
    /\ etree' = [ok |-> TRUE, node |-> parse_line(eline).node]
    /\ epc' = "parsed"
    /\ UNCHANGED <<eline, eout>>
    /\ UNCHANGED <<optVars, notEvalVars>>

\* parse_line().easy_parse(s) is Err
ParseErr ==
    /\ epc = "read"
    /\ ~parse_line(eline).ok
    /\ epc' = "rejected"
    /\ UNCHANGED <<eline, etree, eout>>
    /\ UNCHANGED <<optVars, notEvalVars>>

\* ast.eval(s, opts, 0)
Eval ==
    /\ epc = "parsed"
    /\ eout' = eval(etree.node, estimate, 0)
    /\ epc' = "done"
    /\ UNCHANGED <<eline, etree>>
    /\ UNCHANGED <<optVars, notEvalVars>>

\* the tree and the result are dropped, the next line can come
Drop ==
    /\ epc \in {"done", "rejected"}
    /\ eline' = <<>>
    /\ etree' = NoTree
    /\ eout' = NoOut
    /\ epc' = "ready"
    /\ UNCHANGED <<optVars, notEvalVars>>

NextEval ==
    \/ \E s \in EstimateArgs : WithEstimate(s)
    \/ \E s \in Lines(MaxOps) : ReadLine(s)
    \/ ParseOk
    \/ ParseErr
    \/ Eval
    \/ Drop

SpecEval == InitEval /\ [][NextEval]_vars

(***************************************************************************)
(* Claims about eval.                                                      *)
(***************************************************************************)
IsBinary(n) == n.ty \in {"Add", "Sub", "Mul", "Div"}

RECURSIVE Nodes(_)
\* the nodes of a tree
Nodes(n) ==
    {n} \cup (IF n.ty = "Literal" THEN {}
              ELSE IF IsBinary(n) THEN Nodes(n.lhs) \cup Nodes(n.rhs)
              ELSE Nodes(n.inner))

RECURSIVE ExactVal(_)
\* the value of an expression as a fraction, <<>> where it has none
ExactVal(n) ==
    IF n.ty = "Literal" THEN <<LitEval(n.lit)[1]>>
    ELSE IF n.ty = "Paren" THEN ExactVal(n.inner)
    ELSE IF n.ty = "NegParen"
        THEN LET v == ExactVal(n.inner)
             IN IF v = <<>> THEN <<>> ELSE <<RatNeg(v[1])>>
    ELSE LET l == ExactVal(n.lhs)
             r == ExactVal(n.rhs)
         IN IF l = <<>> \/ r = <<>> THEN <<>>
            ELSE CASE n.ty = "Add" -> <<RatAdd(l[1], r[1])>>
                   [] n.ty = "Sub" -> <<RatSub(l[1], r[1])>>
                   [] n.ty = "Mul" -> <<RatMul(l[1], r[1])>>
                   [] n.ty = "Div" ->
                        IF RatIsZero(r[1]) THEN <<>> ELSE <<RatDiv(l[1], r[1])>>

RECURSIVE FirstZeroDiv(_)
\* the first division by an exact zero, operands before their operator and
\* the left one before the right one; <<>> if there is none
FirstZeroDiv(n) ==
    IF n.ty = "Literal" THEN <<>>
    ELSE IF ~IsBinary(n) THEN FirstZeroDiv(n.inner)
    ELSE IF FirstZeroDiv(n.lhs) # <<>> THEN FirstZeroDiv(n.lhs)
    ELSE IF FirstZeroDiv(n.rhs) # <<>> THEN FirstZeroDiv(n.rhs)
    ELSE IF n.ty = "Div" /\ ExactVal(n.rhs) = <<<<0, 1>>>> THEN <<n>>
    ELSE <<>>

RECURSIVE SpanStart(_)
\* where the text of a node starts: a binary node has no position of its own
SpanStart(n) == IF IsBinary(n) THEN SpanStart(n.lhs) ELSE n.range[1]

RECURSIVE SpanEnd(_)
SpanEnd(n) == IF IsBinary(n) THEN SpanEnd(n.rhs) ELSE n.range[2]

\* what a node returns against what its operands return
NodeErrors(n) ==
    LET res == eval(n, estimate, 0)
    IN IF n.ty = "Literal" THEN res.ok
       ELSE IF ~IsBinary(n)
           THEN LET inner == eval(n.inner, estimate, 1)
                IN /\ res.ok <=> inner.ok
                   /\ ~inner.ok => res.range = inner.range
       ELSE LET lhs == eval(n.lhs, estimate, 1)
                rhs == eval(n.rhs, estimate, 1)
            IN /\ ~lhs.ok => ~res.ok /\ res.range = lhs.range
               /\ lhs.ok /\ ~rhs.ok => ~res.ok /\ res.range = rhs.range
               /\ lhs.ok /\ rhs.ok =>
                     /\ ~res.ok <=> (n.ty = "Div" /\ RatIsZero(rhs.val[1]))
                     /\ ~res.ok => res.range = <<lhs.range[1], rhs.range[2]>>

\* C10: a Div node whose operands both evaluate raises ZeroDivision exactly
\* when the exact value of the divisor is zero, whatever its f64 is; the
\* range is from the start of the left operand's range to the end of the
\* right one's (0..5 for 1 / 0); every enclosing node returns the error of
\* its operand as it is, so the caller gets the first such division.
C10_ZeroDivision ==
    epc = "done" =>
        /\ \A n \in Nodes(etree.node) : NodeErrors(n)
        /\ eout.ok <=> FirstZeroDiv(etree.node) = <<>>
        /\ ~eout.ok =>
              eout.range = <<SpanStart(FirstZeroDiv(etree.node)[1].lhs),
                             SpanEnd(FirstZeroDiv(etree.node)[1].rhs)>>
        /\ eline = <<"1", " ", "/", " ", "0">> => ~eout.ok /\ eout.range = <<0, 5>>

\* (1/(9+1-10))*2: the divisor is exactly 0 and its float is not
C10_Witness ==
    /\ epc = "done"
    /\ eline = <<"(", "1", "/", "(", "9", "+", "1", "-", "1", "0", ")", ")", "*", "2">>
    /\ ~eout.ok
    /\ eout.range = <<1, 11>>
    /\ ~FltIsZero(eval(etree.node.lhs.inner.rhs, estimate, 2).val[2])

(***************************************************************************)
(* Claims about the ranges.                                                *)
(***************************************************************************)
\* <<a, b>> lies within <<c, d>>
Within(inner, outer) == outer[1] <= inner[1] /\ inner[2] <= outer[2]

\* the range a node returns against the line and the ranges of its operands
RangeWellFormed(n, s) ==
    LET res == eval(n, estimate, 0)
    IN /\ 0 <= res.range[1]
       /\ res.range[1] <= res.range[2]
       /\ res.range[2] <= Len(s)
       /\ res.ok /\ IsBinary(n) =>
             LET lhs == eval(n.lhs, estimate, 1)
                 rhs == eval(n.rhs, estimate, 1)
             IN /\ res.range = <<lhs.range[1], rhs.range[2]>>
                /\ Within(lhs.range, res.range)
                /\ Within(rhs.range, res.range)
       /\ res.ok /\ n.ty \in {"Paren", "NegParen"} =>
             Within(eval(n.inner, estimate, 1).range, res.range)

\* C11: for every node of a tree parse_line makes of a line s, the range eval
\* returns has 0 <= start <= end <= len(s); the range of a binary node goes
\* from the start of its left operand's range to the end of its right
\* operand's range and so contains both; the range of a Paren or NegParen
\* node contains the range of the node inside.
C11_RangeWellFormed ==
    epc \in {"parsed", "done"} =>
        \A n \in Nodes(etree.node) : RangeWellFormed(n, eline)

\* 1 * (2 - 3 + 4) / 5: the root is 0..19, the parentheses are 4..15 and the
\* sum inside them is 5..14
C11_Witness ==
    /\ epc = "done"
    /\ Len(eline) = 19
    /\ eout.ok
    /\ eout.range = <<0, 19>>
    /\ etree.node.ty = "Div"
    /\ etree.node.lhs.rhs.ty = "Paren"
    /\ eval(etree.node.lhs.rhs, estimate, 2).range = <<4, 15>>
    /\ eval(etree.node.lhs.rhs.inner, estimate, 3).range = <<5, 14>>

(***************************************************************************)
(* Claims about the value: the usual reading of the text of a line, worked *)
(* out on the characters without the parser.                               *)
(***************************************************************************)
\* the last index in lo..hi that is no space, lo - 1 if there is none
LastInk(s, lo, hi) ==
    LET S == {i \in lo..hi : s[i] # " "}
    IN IF S = {} THEN lo - 1 ELSE CHOOSE i \in S : \A j \in S : j <= i

\* the first index in lo..hi that is no space, hi + 1 if there is none
FirstInk(s, lo, hi) ==
    LET S == {i \in lo..hi : s[i] # " "}
    IN IF S = {} THEN hi + 1 ELSE CHOOSE i \in S : \A j \in S : i <= j

\* the parentheses open at index p of s[lo..hi]
OpenAt(s, lo, p) ==
    Cardinality({i \in lo..(p - 1) : s[i] = "("})
        - Cardinality({i \in lo..(p - 1) : s[i] = ")"})

\* the operators of cs in s[lo..hi] outside parentheses that stand between
\* two operands: what is before them ends in a digit or in )
BinaryOpsAt(s, lo, hi, cs) ==
    {p \in lo..hi :
        /\ s[p] \in cs
        /\ OpenAt(s, lo, p) = 0
        /\ LastInk(s, lo, p - 1) >= lo
        /\ (IsDigit(s[LastInk(s, lo, p - 1)]) \/ s[LastInk(s, lo, p - 1)] = ")")}

\* the number a run of digits writes
RunNumber(s, lo, hi) ==
    LET term[i \in (lo - 1)..hi] ==
            IF i = lo - 1 THEN 0 ELSE term[i - 1] * 10 + DigitVal(s[i])
    IN term[hi]

\* the value of the literal s[lo..hi]: its digits times a power of ten
LiteralValue(s, lo, hi) ==
    LET neg == s[lo] = "-"
        m0 == IF neg THEN lo + 1 ELSE lo
        E == {i \in lo..hi : s[i] \in {"e", "E"}}
        m1 == IF E = {} THEN hi ELSE (CHOOSE i \in E : TRUE) - 1
        D == {i \in m0..m1 : s[i] = "."}
        dot == IF D = {} THEN m1 + 1 ELSE CHOOSE i \in D : TRUE
        int == RunNumber(s, m0, dot - 1)
        frac == IF D = {} THEN 0 ELSE RunNumber(s, dot + 1, m1)
        fracLen == IF D = {} THEN 0 ELSE m1 - dot
        x0 == m1 + 2
        xneg == E # {} /\ s[x0] = "-"
        x1 == IF E # {} /\ s[x0] \in {"+", "-"} THEN x0 + 1 ELSE x0
        exp == IF E = {} THEN 0
               ELSE (IF xneg THEN -1 ELSE 1) * RunNumber(s, x1, hi)
        mant == (IF neg THEN -1 ELSE 1) * (int * Pow(10, fracLen) + frac)
        e10 == exp - fracLen
    IN IF e10 >= 0 THEN RatNew(mant * Pow(10, e10), 1)
       ELSE RatNew(mant, Pow(10, -e10))

RECURSIVE TextValue(_, _, _)
\* the value of s[lo..hi] under the usual reading, <<>> where a division by
\* zero leaves it without one: the last + or - outside parentheses splits
\* first, then the last * or /, then parentheses and -( ) are opened
TextValue(s, lo, hi) ==
    LET a == FirstInk(s, lo, hi)
        b == LastInk(s, lo, hi)
        adds == BinaryOpsAt(s, a, b, {"+", "-"})
        muls == BinaryOpsAt(s, a, b, {"*", "/"})
        ops == IF adds # {} THEN adds ELSE muls
        p == CHOOSE i \in ops : \A j \in ops : j <= i
    IN IF ops # {}
       THEN Only({Only({IF l = <<>> \/ r = <<>> THEN <<>>
                        ELSE CASE s[p] = "+" -> <<RatAdd(l[1], r[1])>>
                               [] s[p] = "-" -> <<RatSub(l[1], r[1])>>
                               [] s[p] = "*" -> <<RatMul(l[1], r[1])>>
                               [] s[p] = "/" ->
                                    IF RatIsZero(r[1]) THEN <<>>
                                    ELSE <<RatDiv(l[1], r[1])>> :
                           r \in {TextValue(s, p + 1, b)}}) :
                     l \in {TextValue(s, a, p - 1)}})
       ELSE IF s[a] = "(" THEN TextValue(s, a + 1, b - 1)
       ELSE IF s[a] = "-" /\ s[FirstInk(s, a + 1, b)] = "("
           THEN Only({IF v = <<>> THEN <<>> ELSE <<RatNeg(v[1])>> :
                         v \in {TextValue(s, FirstInk(s, a + 1, b) + 1, b - 1)}})
       ELSE <<LiteralValue(s, a, b)>>

\* C12: for every line parse_line accepts, the exact rational eval returns
\* is the value of the expression under the usual reading: a literal is its
\* digits times 10^exponent, * and / bind tighter than + and -, operators of
\* one precedence group to the left, parentheses group and -( ) negates;
\* 1 * (2 - 3 + 4) / 5 evaluates to 3/5 with the root range 0..len.
C12_UsualReading ==
    epc = "done" =>
        /\ eout.ok => <<eout.val[1]>> = TextValue(eline, 1, Len(eline))
        /\ eline = <<"1", " ", "*", " ", "(", "2", " ", "-", " ", "3", " ", "+",
                     " ", "4", ")", " ", "/", " ", "5">> =>
              eout.ok /\ eout.val[1] = <<3, 5>> /\ eout.range = <<0, Len(eline)>>

\* 9-1-1 is 7 and not 9: the two subtractions group to the left
C12_Witness ==
    /\ epc = "done"
    /\ eline = <<"9", "-", "1", "-", "1">>
    /\ eout.ok
    /\ eout.val[1] = <<7, 1>>

(***************************************************************************)
(* Claims about the estimate frames of one tree.                           *)
(***************************************************************************)
RECURSIVE PostOrder(_, _)
\* the nodes of a tree with their depths: left subtree, right subtree, node
PostOrder(n, d) ==
    IF n.ty = "Literal" THEN <<[node |-> n, depth |-> d]>>
    ELSE IF IsBinary(n)
        THEN PostOrder(n.lhs, d + 1) \o PostOrder(n.rhs, d + 1)
                 \o <<[node |-> n, depth |-> d]>>
    ELSE PostOrder(n.inner, d + 1) \o <<[node |-> n, depth |-> d]>>

\* the nodes evaluated to the end: all of them, or those before the first
\* division by an exact zero
Completed(root) ==
    LET po == PostOrder(root, 0)
        fz == FirstZeroDiv(root)
        at == {i \in 1..Len(po) : fz # <<>> /\ po[i].node = fz[1]}
    IN IF at = {} THEN po
       ELSE SubSeq(po, 1, (CHOOSE i \in at : \A j \in at : i <= j) - 1)

ReportedAt(e) == do_estimate(estimate, EvalContext(e.node.ty, e.depth))

\* the completed nodes that do_estimate lets through
Reported(root) == SelectSeq(Completed(root), ReportedAt)

\* C18: the estimate frames of one tree are the nodes for which do_estimate
\* is true, in post-order (left subtree, right subtree, node), up to the
\* first Div node whose divisor is exactly zero.  On success the root's
\* frame is there and is the last one.  On ZeroDivision there is no frame
\* for the failing Div node, for any node around it or for any node after
\* it, and the frames of the nodes before it are there.
C18_FramesPostOrder ==
    epc = "done" =>
        LET want == Reported(etree.node)
        IN /\ Len(eout.frames) = Len(want)
           /\ \A i \in 1..Len(want) :
                 /\ eout.frames[i].range =
                        <<SpanStart(want[i].node), SpanEnd(want[i].node)>>
                 /\ <<eout.frames[i].val[1]>> = ExactVal(want[i].node)
           /\ eout.ok =>
                 /\ Len(eout.frames) >= 1
                 /\ eout.frames[Len(eout.frames)] = Frame(eout.val, eout.range)
           /\ ~eout.ok =>
                 \A i \in 1..Len(eout.frames) :
                     /\ ~Within(eout.range, eout.frames[i].range)
                     /\ eout.frames[i].range[2] <= eout.range[2]

\* 9/(1-1)-1/0 with every flag set: 9, 1, 1, 1-1 and (1-1) are reported, the
\* division 0..7 is not, and nothing of 1/0 after it
C18_Witness ==
    /\ epc = "done"
    /\ eline = <<"9", "/", "(", "1", "-", "1", ")", "-", "1", "/", "0">>
    /\ estimate = EstimateContext(TRUE, TRUE, TRUE)
    /\ ~eout.ok
    /\ eout.range = <<0, 7>>
    /\ Len(eout.frames) = 5
    /\ eout.frames[5].range = <<2, 7>>

(***************************************************************************)
(* ui.rs: str_emph_correct and str_approx.  What is printed is kept in its *)
(* parts: the bold and the dark text, and the terms of the decomposition.  *)
(***************************************************************************)
\* the numerators of the values are within -MaxNum..MaxNum and their
\* denominators within 1..MaxDen
MaxNum == 3
MaxDen == 4

\* (b + b'0') as char, for every digit
DigitStr(ds) == [i \in 1..Len(ds) |-> DigitChars[ds[i] + 1]]

\* Display for DecimalTuple
to_string(d) ==
    LET tmp == DigitStr(d.frac_once)
                   \o (IF d.frac_rep # <<>>
                       THEN <<"(">> \o DigitStr(d.frac_rep) \o <<".", ".", ".", ")">>
                       ELSE <<>>)
    IN (IF d.sign = "Minus" THEN <<"-">> ELSE <<>>)
           \o DigitStr(DecDigits(d.int))
           \o (IF tmp # <<>> THEN <<".">> \o tmp ELSE <<>>)

\* format!("{0:0<1$}", s, len): s with zeros after it up to the width len
PadZeros(s, len) ==
    s \o [i \in 1..(IF len > Len(s) THEN len - Len(s) ELSE 0) |-> "0"]

Emph(len, bold, dark) == [len |-> len, bold |-> bold, dark |-> dark]

Ellipsis == <<"(", "0", ".", ".", ".", ")">>

str_emph_correct(approx, truth) ==
    LET s == to_string(approx)
        lcp == lcp_len(approx, truth)
    IN IF lcp = None THEN Emph(lcp, s, <<>>)
       ELSE IF lcp[1] < Len(s)
           THEN Emph(lcp, SubSeq(s, 1, lcp[1]), SubSeq(s, lcp[1] + 1, Len(s)))
       ELSE IF is_integer(approx)
           THEN Emph(lcp, PadZeros(s \o <<".">>, lcp[1]), Ellipsis)
       ELSE Emph(lcp, PadZeros(s, lcp[1]), Ellipsis)

RECURSIVE TrailingZeros(_)
\* trailing_zeros() of a nonzero integer: how often 2 divides it
TrailingZeros(n) == IF n % 2 # 0 THEN 0 ELSE 1 + TrailingZeros(n \div 2)

Approx(form, t, plus, rel, exp) ==
    [form |-> form, t |-> t, plus |-> plus, rel |-> rel, exp |-> exp]

\* if abs.is_positive() { '+' } else { '-' }
SignOfAbs(abs, rel) == abs[1] > 0

\* str_approx: "exact" is the bare t, "one" is t * (1 +- 1), "pow" is
\* t * (1 +- 2^{exp}), "rel" is t * (1 +- rel), "relpow" is
\* t * (1 +- rel * 2^{exp})
str_approx(approx, truth) ==
    LET rat_approx == RationalFromDecimal(approx)
        rat_truth == RationalFromDecimal(truth)
        abs == RatSub(rat_approx, rat_truth)
        rel0 == RatDiv(abs, rat_truth)
        num_tz == TrailingZeros(Abs(rel0[1]))
        den_tz == TrailingZeros(rel0[2])
        exp == num_tz - den_tz
        rel == RatDiv(RatAbs(rel0), Pow2(exp))
        plus == SignOfAbs(abs, rel0)
    IN IF rat_approx = rat_truth THEN Approx("exact", rat_truth, FALSE, <<1, 1>>, 0)
       ELSE IF rel = <<1, 1>>
           THEN Approx(IF exp = 0 THEN "one" ELSE "pow", rat_truth, plus, rel, exp)
       ELSE Approx(IF exp = 0 THEN "rel" ELSE "relpow", rat_truth, plus, rel, exp)

(***************************************************************************)
(* ui.rs driven: estimate turns the exact value and the float into         *)
(* DecimalTuples and prints them with str_emph_correct and str_approx.     *)
(***************************************************************************)
\* the values of the rows of the tests of ui.rs and of the rows of tests_lcp
\* with a zero: 1.23 1.24 1.2 1.3 -10 -2 1 1.(001) 1.1 1.(100) 0 0.01 0.001
\* -0.001
TestRats ==
    {RatNew(123, 100), RatNew(124, 100), RatNew(12, 10), RatNew(13, 10),
     <<-10, 1>>, <<-2, 1>>, <<1, 1>>, RatNew(1000, 999), RatNew(11, 10),
     RatNew(1099, 999), <<0, 1>>, RatNew(1, 100), RatNew(1, 1000),
     RatNew(-1, 1000)}

UiRats(n, d) == TestRats \cup {RatNew(x, y) : x \in (-n)..n, y \in 1..d}

InitUi ==
    /\ IdleCycle /\ IdleDec /\ IdleParse /\ IdleOpt /\ IdleEval /\ IdleRepl
    /\ uapprox = Zero /\ utruth = Zero
    /\ uemph = NoEmph
    /\ uappr = NoApprox
    /\ upc = "init"

\* let d_rat = DecimalTuple::from(rat); let d_flt = DecimalTuple::from(flt)
FromValues(rat, flt) ==
    /\ upc = "init"
    /\ utruth' = DecimalFromRational(rat)
    /\ uapprox' = DecimalFromRational(flt)
    /\ upc' = "values"
    /\ UNCHANGED <<uemph, uappr>>
    /\ UNCHANGED notUiVars

\* str_emph_correct(&d_flt, &d_rat)
StrEmphCorrect ==
    /\ upc = "values"
    /\ uemph' = str_emph_correct(uapprox, utruth)
    /\ upc' = "emph"
    /\ UNCHANGED <<uapprox, utruth, uappr>>
    /\ UNCHANGED notUiVars

\* if !rat.is_zero() { str_approx(&d_flt, &d_rat) }
StrApprox ==
    /\ upc = "emph"
    /\ utruth # Zero
    /\ uappr' = str_approx(uapprox, utruth)
    /\ upc' = "approx"
    /\ UNCHANGED <<uapprox, utruth, uemph>>
    /\ UNCHANGED notUiVars

NextUi ==
    \/ \E rat \in UiRats(MaxNum, MaxDen), flt \in UiRats(MaxNum, MaxDen) :
          FromValues(rat, flt)
    \/ StrEmphCorrect
    \/ StrApprox

SpecUi == InitUi /\ [][NextUi]_vars

(***************************************************************************)
(* Claims about ui.rs.                                                     *)
(***************************************************************************)
RECURSIVE LeadingZeros(_, _)
\* the zeros the fraction of a nonzero value below 1 starts with, counted
\* from the i-th digit after the point
LeadingZeros(d, i) ==
    IF DigitStream(d, i + 2)[i + 2] # 0 THEN 0 ELSE 1 + LeadingZeros(d, i + 1)

\* what a value below 1 in size has in common with 0: "0." and its zeros,
\* and the '-' before them
ZeroPrefix(d) == 2 + LeadingZeros(d, 1) + (IF d.sign = "Minus" THEN 1 ELSE 0)

\* C16: with one operand zero and the other a nonzero value with integer
\* part 0, lcp_len counts the shared "0." and the zeros after it and is not
\* 0: lcp_len(0.001, 0) = lcp_len(0, 0.001) = Some(4) and
\* lcp_len(-0.001, 0) = Some(5); str_emph_correct of the approximation 0 and
\* the truth 0.01 is bold "0.0" and dark "(0...)", and of the approximation
\* 0.01 and the truth 0 it is bold "0.0" and dark "1".
C16_ZeroOperandPrefix ==
    upc \in {"emph", "approx"} =>
        /\ utruth = Zero /\ uapprox # Zero /\ uapprox.int = 0 =>
              uemph.len = Some(ZeroPrefix(uapprox))
        /\ uapprox = Zero /\ utruth.sign = "Plus" /\ utruth.int = 0 =>
              uemph.len = Some(ZeroPrefix(utruth))
        /\ uapprox = New("Plus", 0, <<0, 0, 1>>, <<>>) /\ utruth = Zero =>
              uemph.len = Some(4)
        /\ uapprox = Zero /\ utruth = New("Plus", 0, <<0, 0, 1>>, <<>>) =>
              uemph.len = Some(4)
        /\ uapprox = New("Minus", 0, <<0, 0, 1>>, <<>>) /\ utruth = Zero =>
              uemph.len = Some(5)
        /\ uapprox = Zero /\ utruth = New("Plus", 0, <<0, 1>>, <<>>) =>
              uemph.bold = <<"0", ".", "0">> /\ uemph.dark = Ellipsis
        /\ uapprox = New("Plus", 0, <<0, 1>>, <<>>) /\ utruth = Zero =>
              uemph.bold = <<"0", ".", "0">> /\ uemph.dark = <<"1">>

\* the value the printed decomposition stands for: t * (1 + s * rel * 2^exp)
Printed(r) ==
    LET s == IF r.plus THEN <<1, 1>> ELSE <<-1, 1>>
        rel == IF r.form \in {"one", "pow"} THEN <<1, 1>> ELSE r.rel
        exp == IF r.form \in {"one", "rel"} THEN 0 ELSE r.exp
    IN RatMul(r.t, RatAdd(<<1, 1>>, RatMul(s, RatMul(rel, Pow2(exp)))))

\* C17: whenever str_approx prints t * (1 +- rel * 2^exp), in any of its
\* forms, for an approximation a and a truth t other than a and other than
\* zero, t * (1 + s * rel * 2^exp) with s = 1 for + and s = -1 for - is a,
\* for positive and for negative t, and rel has an odd numerator and an odd
\* denominator.
C17_DecompositionIsIdentity ==
    upc = "approx" /\ uappr.form # "exact" =>
        /\ Printed(uappr) = RationalFromDecimal(uapprox)
        /\ uappr.rel[1] % 2 = 1
        /\ uappr.rel[2] % 2 = 1

(***************************************************************************)
(* repl.rs: repl.  What eprintln!, frontmatter, estimate, backmatter and   *)
(* error_report print since the last readline is kept as a sequence of     *)
(* entries; the calls into rustyline that return a Result can fail.  The   *)
(* flags are those main gave; ast.eval is called at depth 0.               *)
(***************************************************************************)
\* readline is called at most MaxReads times before the input ends
MaxReads == 3

Out(kind, arg) == [kind |-> kind, arg |-> arg]

\* line.trim().is_empty()
IsBlank(line) == \A i \in 1..Len(line) : line[i] = " "

\* the lines typed: empty, blank, a colon command, expressions that
\* evaluate, that divide by zero after a part was evaluated, and that do
\* not parse
ReplLines ==
    {<<>>, <<" ", " ">>,
     <<":", "e", "s", "t", "i", "m", "a", "t", "e", "=", "e", "a", "c", "h">>,
     <<"1", "+", "2">>,
     <<"(", "1", "+", "2", ")", "/", "0">>,
     <<"1", " ", "+">>}

\* what rl.readline returns
ReadResults ==
    {[ty |-> "Ok", line |-> l] : l \in ReplLines}
        \cup {[ty |-> e, line |-> <<>>] : e \in {"Interrupted", "Eof", "Io"}}

\* the Err arms of the match on readline: what is printed
ReadErrorPrinted(r) ==
    CASE r.ty = "Interrupted" -> <<Out("^C", <<>>)>>
      [] r.ty = "Eof" -> <<Out("^D", <<>>)>>
      [] r.ty = "Io" -> <<Out("Error", <<>>)>>

\* an interrupt leaves the loop as well
AfterReadInterruptBreaks(r) ==
    IF r.ty \in {"Eof", "Interrupted"} THEN "left"
    ELSE IF r.ty = "Ok" /\ ~IsBlank(r.line) THEN "line"
    ELSE "prompt"

\* where the match on readline goes: break on Eof, the body of the second
\* arm for a line that is not blank, the next iteration otherwise
AfterRead(r) ==
    IF r.ty = "Eof" THEN "left"
    ELSE IF r.ty = "Ok" /\ ~IsBlank(r.line) THEN "line"
    ELSE "prompt"

\* the estimate frames and a closing frame before them
RenderedClosingFirst(res) ==
    <<Out(IF res.ok THEN "backmatter" ELSE "divide by zero",
          IF res.ok THEN <<>> ELSE res.range)>>
        \o [i \in 1..Len(res.frames) |-> Out("estimate", res.frames[i].range)]

\* ast.0.eval(..) prints the estimate frames, then backmatter prints the
\* closing frame of the result
Rendered(res) ==
    [i \in 1..Len(res.frames) |-> Out("estimate", res.frames[i].range)]
        \o <<Out(IF res.ok THEN "backmatter" ELSE "divide by zero",
                 IF res.ok THEN <<>> ELSE res.range)>>

InitRepl ==
    /\ IdleCycle /\ IdleDec /\ IdleParse /\ IdleOpt /\ IdleEval /\ IdleUi
    /\ rpc = "main"
    /\ rnl = 0
    /\ rlog = <<>>
    /\ rhist = <<>>
    /\ rsaved = 0
    /\ rret = "none"
    /\ rread = "none"

\* main: the options from the values of -e
Main(args) ==
    /\ rpc = "main"
    /\ estimate' = IF args = <<>> THEN estimate ELSE update_token(estimate, args[1])
    /\ rpc' = "repl"
    /\ UNCHANGED <<queue, opre, olast, ocmd, ectx, eres, opc>>
    /\ UNCHANGED <<evalVars, rnl, rlog, rhist, rsaved, rret, rread>>
    /\ UNCHANGED notReplVars

\* DefaultEditor::with_config(cfg)?, then load_history
WithConfig(ok, loaded) ==
    /\ rpc = "repl"
    /\ rpc' = IF ok THEN "prompt" ELSE "returned"
    /\ rret' = IF ok THEN rret ELSE "Err(with_config)"
    /\ rlog' = IF ok /\ ~loaded THEN <<Out("No previous history.", <<>>)>> ELSE <<>>
    /\ UNCHANGED <<optVars, evalVars, rnl, rhist, rsaved, rread>>
    /\ UNCHANGED notReplVars

\* for nl in 1.. { match rl.readline(..) { .. } }, up to the body of the arm
\* of a line that is not blank
Readline(r) ==
    /\ rpc = "prompt"
    /\ rnl < MaxReads \/ r.ty = "Eof"
    /\ rnl' = rnl + 1
    /\ eline' = r.line
    /\ etree' = NoTree
    /\ eout' = NoOut
    /\ rlog' = IF r.ty = "Ok" THEN <<>> ELSE ReadErrorPrinted(r)
    /\ rpc' = AfterRead(r)
    /\ rread' = r.ty
    /\ UNCHANGED <<optVars, epc, rhist, rsaved, rret>>
    /\ UNCHANGED notReplVars

\* eval_line, eprintln!("read: .."), rl.add_history_entry(line)?
AddHistoryEntry(ok) ==
    /\ rpc = "line"
    /\ rlog' = Append(rlog, Out("read", <<>>))
    /\ rhist' = IF ok THEN Append(rhist, eline) ELSE rhist
    /\ rpc' = IF ok THEN "recorded" ELSE "returned"
    /\ rret' = IF ok THEN rret ELSE "Err(add_history_entry)"
    /\ UNCHANGED <<optVars, evalVars, rnl, rsaved, rread>>
    /\ UNCHANGED notReplVars

\* frontmatter("stdin", nl)
Frontmatter ==
    /\ rpc = "recorded"
    /\ rlog' = Append(rlog, Out("frontmatter", <<rnl>>))
    /\ rpc' = "framed"
    /\ UNCHANGED <<optVars, evalVars, rnl, rhist, rsaved, rret, rread>>
    /\ UNCHANGED notReplVars

\* parse_line().easy_parse(line) is Ok(ast)
EasyParseOk ==
    /\ rpc = "framed"
    /\ parse_line(eline).ok
    /\ etree' = [ok |-> TRUE, node |-> parse_line(eline).node]
    /\ rpc' = "parsed"
    /\ UNCHANGED <<optVars, eline, eout, epc, rnl, rlog, rhist, rsaved, rret, rread>>
    /\ UNCHANGED notReplVars

\* parse_line().easy_parse(line) is Err(e): error_report(e, &line)
EasyParseErr ==
    /\ rpc = "framed"
    /\ ~parse_line(eline).ok
    /\ rlog' = Append(rlog, Out("parse error", <<>>))
    /\ rpc' = "prompt"
    /\ UNCHANGED <<optVars, evalVars, rnl, rhist, rsaved, rret, rread>>
    /\ UNCHANGED notReplVars

\* backmatter(&line, ast.0.eval(..))
Backmatter ==
    /\ rpc = "parsed"
    /\ eout' = eval(etree.node, estimate, 0)
    /\ rlog' = rlog \o Rendered(eval(etree.node, estimate, 0))
    /\ rpc' = "prompt"
    /\ UNCHANGED <<optVars, eline, etree, epc, rnl, rhist, rsaved, rret, rread>>
    /\ UNCHANGED notReplVars

\* rl.save_history(&histfile)?; Ok(())
SaveHistory(ok) ==
    /\ rpc = "left"
    /\ rsaved' = rsaved + 1
    /\ rret' = IF ok THEN "Ok" ELSE "Err(save_history)"
    /\ rpc' = "returned"
    /\ UNCHANGED <<optVars, evalVars, rnl, rlog, rhist, rread>>
    /\ UNCHANGED notReplVars

NextRepl ==
    \/ \E args \in {<<>>} \cup {<<s>> : s \in EstimateArgs} : Main(args)
    \/ \E ok \in BOOLEAN, loaded \in BOOLEAN : WithConfig(ok, loaded)
    \/ \E r \in ReadResults : Readline(r)
    \/ \E ok \in BOOLEAN : AddHistoryEntry(ok)
    \/ Frontmatter
    \/ EasyParseOk
    \/ EasyParseErr
    \/ Backmatter
    \/ \E ok \in BOOLEAN : SaveHistory(ok)

SpecRepl == InitRepl /\ [][NextRepl]_vars

(***************************************************************************)
(* Claims about the driver.                                                *)
(***************************************************************************)
Kinds(log, ks) == {i \in 1..Len(log) : log[i].kind \in ks}

Closings == {"backmatter", "divide by zero", "parse error"}
Framing == Closings \cup {"frontmatter", "estimate"}

\* the driver is back at the prompt from a line that is not blank
LineDone == rpc = "prompt" /\ rread = "Ok" /\ ~IsBlank(eline)

ColonLine == eline # <<>> /\ eline[1] = ":"

\* C13: a line that is not blank and starts with : is recorded to the
\* history and the rest of it is applied to the options by the update
\* language; it is not parsed as an expression and no frontmatter, estimate
\* frame, backmatter or parse-error frame is printed for it; the updated
\* flags are those the following lines are evaluated with.
C13_ColonCommand ==
    LineDone /\ ColonLine =>
        /\ rhist # <<>> /\ rhist[Len(rhist)] = eline
        /\ Kinds(rlog, Framing) = {}
        /\ eline = <<":", "e", "s", "t", "i", "m", "a", "t", "e", "=",
                     "e", "a", "c", "h">> =>
              estimate = EstimateContext(TRUE, TRUE, TRUE)

\* what is printed for a line that is not blank, once the driver is back at
\* the prompt
Framed ==
    LET front == Kinds(rlog, {"frontmatter"})
        close == Kinds(rlog, Closings)
        est == Kinds(rlog, {"estimate"})
        last == rlog[Len(rlog)]
    IN /\ Cardinality(front) = 1
       /\ \A i \in front : rlog[i].arg = <<rnl>>
       /\ close = {Len(rlog)}
       /\ \A i \in est : \A j \in front : j < i
       /\ parse_line(eline).ok <=> last.kind # "parse error"
       /\ last.kind = "parse error" => est = {} /\ etree = NoTree /\ eout = NoOut
       /\ last.kind # "parse error" =>
             /\ eout = eval(etree.node, estimate, 0)
             /\ (last.kind = "backmatter") <=> eout.ok
             /\ Cardinality(est) = Len(eout.frames)
       /\ rhist # <<>> /\ rhist[Len(rhist)] = eline

\* C14: for a line that is not blank the driver prints one frontmatter,
\* then estimate frames only if the line parsed, then one closing frame (the
\* Ok backmatter, the divide-by-zero backmatter or the parse-error frame),
\* all before the next line is read; after a parse error nothing is
\* evaluated and no estimate frame is printed; a blank line prints nothing
\* and is not added to the history.
C14_Framing ==
    /\ LineDone => Framed
    /\ rpc \in {"line", "recorded", "framed", "parsed"} =>
          Kinds(rlog, Closings \cup {"estimate"}) = {}
    /\ rpc \in {"framed", "parsed"} => Cardinality(Kinds(rlog, {"frontmatter"})) = 1
    /\ rpc = "prompt" /\ rread = "Ok" /\ IsBlank(eline) => rlog = <<>>
    /\ \A i \in 1..Len(rhist) : ~IsBlank(rhist[i])
    /\ Len(rhist) <= rnl

\* (1+2)/0 with every flag set: frontmatter, five estimate frames, then the
\* divide-by-zero backmatter
C14_Witness ==
    /\ LineDone
    /\ eline = <<"(", "1", "+", "2", ")", "/", "0">>
    /\ estimate = EstimateContext(TRUE, TRUE, TRUE)
    /\ Len(rlog) = 8
    /\ rlog[2].kind = "frontmatter"
    /\ rlog[7].kind = "estimate"
    /\ rlog[8] = Out("divide by zero", <<0, 7>>)

\* what holds of the end of the loop whichever way it ends
LoopGoesOn ==
    /\ rread \in {"Interrupted", "Io"} => rpc = "prompt"
    /\ rread = "Ok" /\ IsBlank(eline) /\ rnl >= 1 => rpc = "prompt"
    /\ rlog # <<>> /\ rlog[Len(rlog)].kind \in Closings => rpc = "prompt"
    /\ rsaved <= 1
    /\ rpc = "returned" /\ rread = "Eof" => rsaved = 1
    /\ rsaved = 1 => rread = "Eof" /\ rpc = "returned"
    /\ rpc = "left" => rread = "Eof"

\* C15: the loop ends only when readline reports the end of the input: an
\* interrupt, another read error, a blank line, a parse error and a division
\* by zero leave the loop running; after the end of the input the loop is
\* left and the history is saved exactly once, and repl returns an error
\* only if that save fails.
C15_EndsOnlyOnEof ==
    /\ LoopGoesOn
    /\ rpc = "returned" /\ rnl >= 1 => rread = "Eof"
    /\ rret \notin {"none", "Ok"} => rret = "Err(save_history)" /\ rsaved = 1

\* C15 amended: the loop ends when readline reports the end of the input,
\* and when a line that is not blank cannot be added to the history, in
\* which case repl returns that error without saving the history; an
\* interrupt, another read error, a blank line, a parse error and a division
\* by zero leave the loop running; after the end of the input the history is
\* saved exactly once; repl returns an error if the editor cannot be made
\* (before any line is read), if a line cannot be added to the history, or
\* if the save fails, and in no other case.
C15_EndsOnEofOrError ==
    /\ LoopGoesOn
    /\ rpc = "returned" /\ rnl >= 1 =>
          \/ rread = "Eof"
          \/ /\ rret = "Err(add_history_entry)"
             /\ rread = "Ok" /\ ~IsBlank(eline)
             /\ rsaved = 0
    /\ rret \in {"none", "Ok", "Err(save_history)", "Err(with_config)",
                 "Err(add_history_entry)"}
    /\ rret = "Err(save_history)" => rsaved = 1
    /\ rret = "Err(with_config)" => rnl = 0 /\ rsaved = 0
    /\ rret = "Ok" => rsaved = 1 /\ rread = "Eof"

\* the second line read could not be added to the history: repl returned
\* with the first line in the history and nothing saved
C15_Witness ==
    /\ rpc = "returned"
    /\ rret = "Err(add_history_entry)"
    /\ rnl = 2
    /\ Len(rhist) = 1
    /\ rsaved = 0


=============================================================================
